---- MODULE Spec2Model ----
(***************************************************************************)
(* Span lifecycle of package logger (itmisx/logx): Init, Start, End,       *)
(* NewRootContext, the levelled emission calls and the process-wide        *)
(* SpanCountTable (spanCount).                                             *)
(*                                                                         *)
(* A Go context is an immutable value: ctxs is the list of the context     *)
(* values created so far, index 0 standing for context.Background().       *)
(* The LoggerSpanContext is stored in the context BY VALUE, so every       *)
(* ctx.Value(loggerSpanContextKey).(LoggerSpanContext) yields a copy.      *)
(***************************************************************************)
EXTENDS Integers, Sequences, FiniteSets, TLC

\* ---------------------------------------------------------------- bounds
MaxCtx == 4
MaxCtxRoot == 2
MaxCtxGen == 2
MaxCtxInit == 2
MaxGenRoot == 1
MaxCtxEmit == 1
MaxEmit == 2
MaxCtxLogx == 1
MaxPush == 2
NumWorkers == 2

\* ------------------------------------------------------------- constants
TraceIDHexLen == 16 + 16
SpanIDHexLen == 16
DefaultMaxSpan == 200

Nil == "nil"

\* the nil *zap.Logger
NilLogger == [level |-> "nil", lumLogger |-> [id |-> 0, MaxAge |-> 0]]

\* ------------------------------------------------------------ hex strings
\* A string is a sequence of one-character strings; an ID is a sequence of
\* nibbles (the [16]byte / [8]byte arrays of the tracing library).
Rep(x, n) == [i \in 1..n |-> x]

HexLower == <<"0","1","2","3","4","5","6","7","8","9","a","b","c","d","e","f">>

IsLowerHexChar(ch) == \E n \in 1..16 : HexLower[n] = ch

NibbleOf(ch) == (CHOOSE n \in 1..16 : HexLower[n] = ch) - 1

IsZeroID(id) == \A i \in 1..Len(id) : id[i] = 0

\* TraceID.String() / SpanID.String(): lower-case hex of every byte
EncodeHex(id) == [i \in 1..Len(id) |-> HexLower[id[i] + 1]]

\* decodeHex + length check + IsValid of TraceIDFromHex / SpanIDFromHex
IDFromHex(h, n) ==
    IF Len(h) # n THEN [ok |-> FALSE, id |-> Rep(0, n)]
    ELSE IF ~(\A i \in 1..n : IsLowerHexChar(h[i])) THEN [ok |-> FALSE, id |-> Rep(0, n)]
    ELSE LET id == [i \in 1..n |-> NibbleOf(h[i])]
         IN  IF IsZeroID(id) THEN [ok |-> FALSE, id |-> id]
             ELSE [ok |-> TRUE, id |-> id]

TraceIDFromHex(h) == IDFromHex(h, TraceIDHexLen)

SpanIDFromHex(h) == IDFromHex(h, SpanIDHexLen)

\* IDs drawn by the SDK's random ID generator for the n-th created context
\* (assumed fresh: never equal to an earlier or a caller-supplied ID)
NewSDKTraceID(n) == <<5>> \o Rep(0, TraceIDHexLen - 2) \o <<n>>

NewSDKSpanID(n) == <<5>> \o Rep(0, SpanIDHexLen - 2) \o <<n>>

\* caller-supplied strings tried with NewRootContext
TraceIDInputs ==
    { Rep("a", 31) \o <<"1">>,      \* valid
      Rep("0", 32),                 \* 32 hex characters, all zero
      Rep("A", 32),                 \* 32 upper-case hex characters
      Rep("a", 31),                 \* too short
      Rep("a", 31) \o <<"g">> }     \* not hex

SpanIDInputs ==
    { Rep("b", 15) \o <<"2">>,
      Rep("0", 16),
      Rep("b", 15) }

\* ------------------------------------------------------------------ state
VARIABLES
    config,      \* process-wide Config
    enable_log,  \* process-wide enable_log
    logger,      \* process-wide *zap.Logger: NilLogger or the logger of a zapLogger,
                 \* kept with the rotating writer (lumLogger) built beside it
    provider,    \* process-wide *trace.TracerProvider: Nil or its type
    reqClient,   \* process-wide *req.Client of package logx: Nil or "client"
    rotateCrondOnce, \* the sync.Once of rotateCrond: TRUE once it has run
    cronJobs,    \* the jobs registered with the cron started by rotateCrond
    propagator,  \* otel's global text-map propagator
    sampler,     \* the sampler of the process-wide tracer provider
    spanCount,   \* spanCount.count: key -> int
    ctxs,        \* context values created so far
    spanEnded,   \* contexts whose underlying span had End() called on it
    endCalled,   \* contexts on which End(ctx) has been called
    emitted,     \* per context: number of Warn / Error calls made on it
    proc,        \* "running", "panic" (unrecovered panic) or "exit" (os.Exit)
    last,        \* what the last call did
    g            \* goroutines of the concurrent scenario

vars == <<config, enable_log, logger, provider, reqClient, rotateCrondOnce, cronJobs, propagator, sampler, spanCount, ctxs, spanEnded,
          endCalled, emitted, proc, last, g>>

\* ------------------------------------------------------- SpanCountTable
_md5(str) == <<"md5", str>>

spanCountT_get(tbl, traceID, spanID) ==
    LET key == _md5(traceID \o spanID)
    IN  IF key \in DOMAIN tbl THEN tbl[key] ELSE 0

spanCountT_set(tbl, traceID, spanID, count) ==
    LET key == _md5(traceID \o spanID)
    IN  [k \in (DOMAIN tbl) \cup {key} |-> IF k = key THEN count ELSE tbl[k]]

spanCountT_increase(tbl, traceID, spanID) ==
    LET oldCount == spanCountT_get(tbl, traceID, spanID)
    IN  spanCountT_set(tbl, traceID, spanID, oldCount + 1)

spanCountT_deleteDec(tbl, traceID, spanID) ==
    spanCountT_set(tbl, traceID, spanID, spanCountT_get(tbl, traceID, spanID) - 1)

spanCountT_delete(tbl, traceID, spanID) ==
    LET key == _md5(traceID \o spanID)
    IN  [k \in (DOMAIN tbl) \ {key} |-> tbl[k]]

\* ---------------------------------------------------------------- contexts
\* span kinds: "none" (no span in the context), "sdk" (span of the
\* registered TracerProvider), "noop" (noopSpan{}), "remote" (the
\* nonRecordingSpan wrapping a remote SpanContext)
NoSpan == [kind |-> "none", tid |-> Rep(0, TraceIDHexLen), sid |-> Rep(0, SpanIDHexLen)]

NoLSC == [startSpan |-> FALSE, warnCount |-> 0, errorCount |-> 0]

\* src: the strings a NewRootContext result was built from
Background == [parent |-> 0, hasLSC |-> FALSE, lsc |-> NoLSC, span |-> NoSpan, src |-> <<>>]

CtxIds == 0..Len(ctxs)

Ctx(c) == IF c = 0 THEN Background ELSE ctxs[c]

TraceIDNoOk(c) == EncodeHex(Ctx(c).span.tid)

TraceID(c) == IF ~Ctx(c).hasLSC THEN <<>> ELSE EncodeHex(Ctx(c).span.tid)

SpanID(c) == IF ~Ctx(c).hasLSC THEN <<>> ELSE EncodeHex(Ctx(c).span.sid)

\* SpanContext.IsValid of the span carried by the context
ValidSC(span) == span.kind # "none" /\ ~IsZeroID(span.tid) /\ ~IsZeroID(span.sid)

\* provider.Tracer("").Start(ctx, ...): child of the context's span when
\* that span context is valid, root of a new trace otherwise
sdkStartNewTrace(c, n) ==
    [kind |-> "sdk", tid |-> NewSDKTraceID(n), sid |-> NewSDKSpanID(n)]

sdkStart(c, n) ==
    [kind |-> "sdk",
     tid  |-> IF ValidSC(Ctx(c).span) THEN Ctx(c).span.tid ELSE NewSDKTraceID(n),
     sid  |-> NewSDKSpanID(n)]

\* NewNoopTracerProvider().Tracer("").Start(ctx, ...): passes a
\* nonRecordingSpan of the context through, noopSpan{} otherwise
noopStart(c) ==
    IF Ctx(c).span.kind = "remote" THEN Ctx(c).span
    ELSE [kind |-> "noop", tid |-> Rep(0, TraceIDHexLen), sid |-> Rep(0, SpanIDHexLen)]

\* the comparison of Start against the ceiling
CeilingReachedGT(count, max) == count > max

CeilingReached(count, max) == count >= max

\* the identity under which a Start on context c counts its span
CountKeyRoot(c) ==
    LET RECURSIVE Top(_)
        Top(x) == IF Ctx(x).parent = 0 \/ ~Ctx(Ctx(x).parent).hasLSC THEN x ELSE Top(Ctx(x).parent)
    IN  IF c = 0 \/ ~Ctx(c).hasLSC THEN <<TraceID(c), SpanID(c)>>
        ELSE <<TraceID(Top(c)), SpanID(Top(c))>>

CountKey(c) == <<TraceID(c), SpanID(c)>>

\* last: the call (op, ctx, args), whether the call before it was the same
\* call (rep), its outcome (res), the log records it wrote (logs) and the
\* calls it made on the context's span (calls); for package logx also the
\* steps of the emission that ran, in their order (steps)
NoCall == [op |-> "none", ctx |-> 0, args |-> <<>>, rep |-> FALSE, res |-> "",
           logs |-> <<>>, calls |-> <<>>, steps |-> <<>>]

\* ------------------------------------------------------------------- Init
\* Config.Rotate as the list of the fields of the cron expression: none,
\* six fields (with seconds) and five fields (without)
RotateSpecs ==
    { <<>>,
      <<"0", "0", "0", "*", "*", "*">>,
      <<"0", "0", "*", "*", "*">> }

Configs ==
    [Debug : BOOLEAN, EnableTrace : BOOLEAN, Output : {"none", "console"},
     TracerProviderType : {"", "file", "zipkin"}, MaxSpan : {0, 1, 2},
     Rotate : RotateSpecs, MaxAge : {0}, TraceSampleRatio : {[half |-> 1]}]

\* the global text-map propagator: otel's default, which injects and
\* extracts nothing, b3.New(), and the composite of propagation.TraceContext
\* and propagation.Baggage
NoPropagator == "none"

b3_New == "b3"

TraceContextBaggage == "tracecontext,baggage"

\* the sampler of a tracer provider: trace.TraceIDRatioBased(fraction) keeps
\* the fraction it is handed, a float64 written in halves
NoSampler == [sampler |-> "none", fraction |-> [half |-> 0]]

AlwaysSample == [sampler |-> "AlwaysSample", fraction |-> [half |-> 2]]

TraceIDRatioBased(fraction) == [sampler |-> "TraceIDRatioBased", fraction |-> fraction]

\* Trace{}.NewJaegerProvider(conf): the sampler of the provider it builds,
\* from its own copy of conf
NewJaegerProvider(conf) ==
    LET r == conf.TraceSampleRatio.half
        clamped == IF r > 2 THEN 2 ELSE IF r < 0 THEN 0 ELSE r
    IN  TraceIDRatioBased([half |-> clamped])

\* Trace{}.NewOLTPProvider(ctx, conf, serviceName) of package logx
NewOLTPProvider(conf) == TraceIDRatioBased(conf.TraceSampleRatio)

\* Trace{}.NewFileProvider(conf)
NewFileProvider(conf) == AlwaysSample

InitGlobals ==
    /\ config = [Debug |-> FALSE, EnableTrace |-> FALSE, Output |-> "",
                 TracerProviderType |-> "", MaxSpan |-> 0, LokiServer |-> "",
                 Rotate |-> <<>>, MaxAge |-> 0, TraceSampleRatio |-> [half |-> 0]]
    /\ enable_log = FALSE
    /\ logger = NilLogger
    /\ provider = Nil
    /\ reqClient = Nil
    /\ rotateCrondOnce = FALSE
    /\ cronJobs = <<>>
    /\ propagator = NoPropagator
    /\ sampler = NoSampler
    /\ spanCount = <<>>
    /\ ctxs = <<>>
    /\ spanEnded = {}
    /\ endCalled = {}
    /\ emitted = <<>>
    /\ proc = "running"
    /\ last = NoCall

Init ==
    /\ InitGlobals
    /\ g = <<>>

\* cron.New(cron.WithSeconds()).AddFunc(spec, ...): the parser wants six
\* fields or a descriptor; AddFunc's error is dropped by the caller
CronSpecOK(spec) ==
    \/ Len(spec) = 6
    \/ Len(spec) = 1 /\ spec[1] \in {"@yearly", "@monthly", "@weekly", "@daily", "@hourly"}

\* zapLogger.rotateCrond(conf): the job keeps the writer of its receiver zl
rotateCrond(zl, conf) ==
    IF conf.Rotate # <<>> /\ ~rotateCrondOnce
    THEN /\ rotateCrondOnce' = TRUE
         /\ cronJobs' = IF CronSpecOK(conf.Rotate)
                        THEN Append(cronJobs, [spec |-> conf.Rotate,
                                               lumLogger |-> zl.lumLogger.id])
                        ELSE cronJobs
    ELSE UNCHANGED <<rotateCrondOnce, cronJobs>>

\* lumberjack keeps old log files for MaxAge days, and for ever when MaxAge
\* is 0
DefaultMaxAge == 7

\* newZapLogger(conf): the level of the logger it builds and the rotating
\* writer (hook) it builds from conf; its default for MaxAge goes to the
\* process-wide config (see InitCall)
newZapLoggerInfo(conf) ==
    [level |-> "info", lumLogger |-> [id |-> 0, MaxAge |-> conf.MaxAge]]

newZapLogger(conf) ==
    [level |-> IF conf.Debug THEN "info" ELSE "error",
     lumLogger |-> [id |-> 0, MaxAge |-> conf.MaxAge]]

\* &hook: the writer of each newZapLogger call is a new one
newHook(zl) == [zl EXCEPT !.lumLogger.id = logger.lumLogger.id + 1]

\* Init(conf): exporterFails is the outcome of the exporter construction
\* inside NewJaegerProvider
InitCallNoFatal(conf, exporterFails) ==
    /\ config' = conf
    /\ provider' = IF conf.EnableTrace /\ conf.TracerProviderType = "file" THEN "file" ELSE provider
    /\ enable_log' = IF conf.Output # "none" THEN TRUE ELSE enable_log
    /\ logger' = IF conf.Output # "none" THEN newHook(newZapLogger(conf)) ELSE logger
    /\ reqClient' = reqClient
    /\ propagator' = b3_New
    /\ sampler' = IF conf.EnableTrace /\ conf.TracerProviderType = "file"
                  THEN NewFileProvider(conf) ELSE sampler
    /\ UNCHANGED <<rotateCrondOnce, cronJobs>>
    /\ proc' = proc
    /\ last' = [NoCall EXCEPT !.op = "Init", !.res = "ok", !.args = <<conf>>]

InitCall(conf, exporterFails) ==
    LET tpt == IF conf.TracerProviderType = "" THEN "jaeger" ELSE conf.TracerProviderType
        unsupported == conf.EnableTrace /\ tpt \notin {"jaeger", "file"}
        pd  == IF ~conf.EnableTrace THEN Nil
               ELSE IF tpt = "jaeger" THEN (IF exporterFails THEN Nil ELSE "jaeger")
               ELSE IF tpt = "file" THEN "file"
               ELSE Nil
        logs == conf.Output # "none"
        out == IF logs /\ conf.Output \notin {"file", "console"} THEN "console" ELSE conf.Output
        ms  == IF conf.MaxSpan = 0 THEN DefaultMaxSpan ELSE conf.MaxSpan
        \* newZapLogger: if config.MaxAge == 0 { config.MaxAge = 7 }
        age == IF logs /\ conf.MaxAge = 0 THEN DefaultMaxAge ELSE conf.MaxAge
        zapLogger == newHook(newZapLogger(conf))
    IN
    /\ propagator' = b3_New
    /\ IF unsupported
       THEN /\ config' = conf
            /\ proc' = "exit"
            /\ last' = [NoCall EXCEPT !.op = "Init", !.res = "fatal"]
            /\ UNCHANGED <<enable_log, logger, provider, sampler, reqClient, rotateCrondOnce, cronJobs>>
       ELSE /\ config' = [conf EXCEPT !.Output = out, !.MaxSpan = ms, !.MaxAge = age]
            /\ provider' = IF pd # Nil THEN pd ELSE provider
            /\ sampler' = IF pd = "jaeger" THEN NewJaegerProvider(conf)
                          ELSE IF pd = "file" THEN NewFileProvider(conf)
                          ELSE sampler
            /\ enable_log' = IF logs THEN TRUE ELSE enable_log
            /\ logger' = IF logs THEN zapLogger ELSE logger
            /\ IF logs THEN rotateCrond(zapLogger, conf)
                       ELSE UNCHANGED <<rotateCrondOnce, cronJobs>>
            /\ reqClient' = reqClient
            /\ proc' = proc
            /\ last' = [NoCall EXCEPT !.op = "Init", !.res = "ok", !.args = <<conf>>]

\* Init is called once, sequenced before any traffic (the caller's
\* responsibility)
InitFrom(confs) ==
    /\ proc = "running"
    /\ last.op = "none"
    /\ \E conf \in confs, exporterFails \in BOOLEAN : InitCall(conf, exporterFails)
    /\ UNCHANGED <<spanCount, ctxs, spanEnded, endCalled, emitted, g>>

\* the span lifecycle reads neither Debug nor Output, and reads of the
\* backend only whether one is registered; without tracing it reads no
\* other field
LifeConfigs ==
    {conf \in Configs :
        /\ ~conf.Debug /\ conf.Output = "none" /\ conf.TracerProviderType = ""
        /\ conf.Rotate = <<>>
        /\ conf.EnableTrace \/ conf.MaxSpan = 0}

DoInit == InitFrom(LifeConfigs)

\* ------------------------------------------------------------------ Start
\* Start(ctx, spanName): c is the parent context
StartCall(c) ==
    LET n == Len(ctxs) + 1
        key == CountKey(c)
        enableTrace == IF CeilingReached(spanCountT_get(spanCount, key[1], key[2]), config.MaxSpan)
                       THEN FALSE ELSE config.EnableTrace
        lsc == [NoLSC EXCEPT !.startSpan = TRUE]
        span == IF enableTrace THEN sdkStart(c, n) ELSE noopStart(c)
    IN
    IF enableTrace /\ provider = Nil
    THEN \* provider.Tracer on a nil *TracerProvider
         /\ proc' = "panic"
         /\ last' = [NoCall EXCEPT !.op = "Start", !.ctx = c, !.res = "panic"]
         /\ UNCHANGED <<spanCount, ctxs, emitted>>
    ELSE /\ ctxs' = Append(ctxs, [parent |-> c, hasLSC |-> TRUE, lsc |-> lsc, span |-> span,
                                  src |-> <<>>])
         /\ emitted' = Append(emitted, [warn |-> 0, error |-> 0])
         /\ spanCount' = IF enableTrace
                         THEN spanCountT_increase(spanCount, key[1], key[2])
                         ELSE spanCount
         /\ proc' = proc
         /\ last' = [NoCall EXCEPT !.op = "Start", !.ctx = c,
                                   !.res = IF enableTrace THEN "real" ELSE "noop"]

StartUpTo(max) ==
    /\ proc = "running"
    /\ Len(ctxs) < max
    /\ \E c \in CtxIds : StartCall(c)
    /\ UNCHANGED <<config, enable_log, logger, provider, reqClient, rotateCrondOnce, cronJobs, propagator, sampler, spanEnded, endCalled, g>>

Start == StartUpTo(MaxCtx)

\* --------------------------------------------------------- NewRootContext
NewRootContextCall(traceID, spanID) ==
    LET t == TraceIDFromHex(traceID)
        s == SpanIDFromHex(spanID)
    IN
    IF ~t.ok
    THEN /\ last' = [NoCall EXCEPT !.op = "NewRootContext", !.res = "invalid traceID",
                                   !.args = <<traceID, spanID>>]
         /\ UNCHANGED <<ctxs, emitted>>
    ELSE IF ~s.ok
    THEN /\ last' = [NoCall EXCEPT !.op = "NewRootContext", !.res = "invalid spanID",
                                   !.args = <<traceID, spanID>>]
         /\ UNCHANGED <<ctxs, emitted>>
    ELSE /\ ctxs' = Append(ctxs, [parent |-> 0, hasLSC |-> FALSE, lsc |-> NoLSC,
                                  span |-> [kind |-> "remote", tid |-> t.id, sid |-> s.id],
                                  src |-> <<traceID, spanID>>])
         /\ emitted' = Append(emitted, [warn |-> 0, error |-> 0])
         /\ last' = [NoCall EXCEPT !.op = "NewRootContext", !.ctx = Len(ctxs) + 1, !.res = "ok",
                                   !.args = <<traceID, spanID>>]

NewRootContext ==
    /\ proc = "running"
    /\ Len(ctxs) < MaxCtxRoot
    /\ \E traceID \in TraceIDInputs, spanID \in SpanIDInputs : NewRootContextCall(traceID, spanID)
    /\ UNCHANGED <<config, enable_log, logger, provider, reqClient, rotateCrondOnce, cronJobs, propagator, sampler, spanCount, spanEnded, endCalled, proc, g>>

\* -------------------------------------------------------------------- End
\* End(ctx); panicking: a panic is unwinding through the deferred End
EndCall(c, panicking) ==
    LET logs == IF panicking THEN <<[level |-> "error", msg |-> "panic"]>> ELSE <<>>
        \* the copy read from the context, changed locally
        loggerSpanContext == [Ctx(c).lsc EXCEPT !.startSpan = FALSE]
    IN
    IF panicking /\ logger = NilLogger
    THEN \* logger.Error on a nil *zap.Logger
         /\ proc' = "panic"
         /\ last' = [NoCall EXCEPT !.op = "End", !.ctx = c, !.res = "panic"]
         /\ UNCHANGED <<spanCount, spanEnded, endCalled>>
    ELSE /\ proc' = proc
         /\ last' = [NoCall EXCEPT !.op = "End", !.ctx = c,
                                   !.rep = (last.op = "End" /\ last.ctx = c),
                                   !.res = IF panicking THEN "recovered" ELSE "ok",
                                   !.logs = logs]
         /\ endCalled' = endCalled \cup {c}
         /\ IF ~Ctx(c).hasLSC
            THEN UNCHANGED <<spanCount, spanEnded>>
            ELSE /\ spanEnded' = IF config.EnableTrace THEN spanEnded \cup {c} ELSE spanEnded
                 /\ spanCount' = spanCountT_delete(spanCount, TraceID(c), SpanID(c))

End ==
    /\ proc = "running"
    /\ \E c \in CtxIds : EndCall(c, FALSE)
    /\ UNCHANGED <<config, enable_log, logger, provider, reqClient, rotateCrondOnce, cronJobs, propagator, sampler, ctxs, emitted, g>>

Next ==
    \/ DoInit
    \/ Start
    \/ End

Spec == Init /\ [][Next]_vars

\* caller-supplied root identities
StartRoot == StartUpTo(MaxCtxRoot)

NextRoot ==
    \/ DoInit
    \/ NewRootContext
    \/ StartRoot
    \/ End

SpecRoot == Init /\ [][NextRoot]_vars

\* ---------------------------------------------------- generated identities
\* time.Now().UnixNano() as 16-bit limbs, most significant first
Nows ==
    { <<255>>,                          \* a clock near the epoch
      <<6360, 14940, 0, 7936>>,         \* a present-day clock
      <<32767, 65535, 65535, 65535>> }  \* the largest int64

\* the outcomes of the 16 calls r.Intn(15) of one randString(16)
RandOutcomes ==
    { Rep(0, 16),
      Rep(14, 16),
      Rep(0, 15) \o <<1>>,
      <<3, 14, 0, 9, 1, 12, 7, 7, 0, 2, 13, 5, 10, 4, 8, 6>> }

\* strconv.FormatInt(v, 16) of one limb: no leading zeros
RECURSIVE HexOfNat(_)
HexOfNat(v) ==
    IF v < 16 THEN <<HexLower[v + 1]>>
    ELSE HexOfNat(v \div 16) \o <<HexLower[(v % 16) + 1]>>

\* the four hex digits of a limb below the most significant one
Hex4(v) ==
    <<HexLower[(v \div 4096) + 1], HexLower[((v \div 256) % 16) + 1],
      HexLower[((v \div 16) % 16) + 1], HexLower[(v % 16) + 1]>>

RECURSIVE Hex4s(_)
Hex4s(limbs) == IF limbs = <<>> THEN <<>> ELSE Hex4(Head(limbs)) \o Hex4s(Tail(limbs))

\* strconv.FormatInt(v, 16)
FormatInt16(limbs) == HexOfNat(Head(limbs)) \o Hex4s(Tail(limbs))

\* randString(len) with r the outcomes of r.Intn(15): seed[r[i]]
randString(len, r) == [i \in 1..len |-> HexLower[r[i] + 1]]

GenTraceID(now, r) ==
    LET stime == FormatInt16(now)
        paddingLen == 16 - Len(stime)
        padded == IF paddingLen > 0 THEN stime \o Rep("0", paddingLen) ELSE stime
    IN  padded \o randString(16, r)

GenSpanID(r) == randString(16, r)

\* NewRootContext(GenTraceID(), GenSpanID())
GenRootContext ==
    /\ proc = "running"
    /\ Cardinality({i \in 1..Len(ctxs) : ctxs[i].src # <<>>}) < MaxGenRoot
    /\ Len(ctxs) < MaxCtxGen
    /\ \E now \in Nows, r1 \in RandOutcomes, r2 \in RandOutcomes :
          NewRootContextCall(GenTraceID(now, r1), GenSpanID(r2))
    /\ UNCHANGED <<config, enable_log, logger, provider, reqClient, rotateCrondOnce, cronJobs, propagator, sampler, spanCount, spanEnded, endCalled, proc, g>>

StartGen == StartUpTo(MaxCtxGen)

NextGen ==
    \/ DoInit
    \/ GenRootContext
    \/ StartGen
    \/ End

SpecGen == Init /\ [][NextGen]_vars

\* ------------------------------------------------------- Init, every conf
InitAny == InitFrom(Configs)

StartInit == StartUpTo(MaxCtxInit)

NextInit ==
    \/ InitAny
    \/ StartInit
    \/ End

SpecInit == Init /\ [][NextInit]_vars

TypeOK ==
    /\ proc \in {"running", "panic", "exit"}
    /\ Len(ctxs) <= MaxCtx

\* ----------------------------------------------------------------- fields
\* a float64 value n/2 is written F64(n)
F64(n) == [half |-> n]

\* Go values passed as interface{}: a string, an int, a channel
GoString(str) == [go |-> "string", str |-> str]

GoInt(n) == [go |-> "int", int |-> n]

GoChan == [go |-> "chan"]

GoNil == [go |-> "nil"]

\* the zero Field
ZeroField ==
    [Key |-> "", Type |-> "nnknownType", Bool |-> FALSE, Bools |-> <<>>, Integer |-> 0,
     Integers |-> <<>>, String |-> <<>>, Float64 |-> F64(0), Integer64 |-> 0,
     Integer64s |-> <<>>, Strings |-> <<>>, Float64s |-> <<>>, Any |-> GoNil]

Bool(key, val) == [ZeroField EXCEPT !.Key = key, !.Type = "boolType", !.Bool = val]

\* Int(key, val), Integers having an Int of its own
logger_Int(key, val) == [ZeroField EXCEPT !.Key = key, !.Type = "intType", !.Integer = val]

IntSlice(key, val) == [ZeroField EXCEPT !.Key = key, !.Type = "intSliceType", !.Integers = val]

Int64(key, val) == [ZeroField EXCEPT !.Key = key, !.Type = "int64Type", !.Integer64 = val]

Float64(key, val) == [ZeroField EXCEPT !.Key = key, !.Type = "float64Type", !.Float64 = val]

String(key, val) == [ZeroField EXCEPT !.Key = key, !.Type = "stringType", !.String = val]

StringSlice(key, val) == [ZeroField EXCEPT !.Key = key, !.Type = "stringSliceType", !.Strings = val]

\* Stringer(key, val): val.String() is taken at construction
Stringer(key, str) == [ZeroField EXCEPT !.Key = key, !.Type = "stringerType", !.String = str]

\* Any(key, val), TLC having an Any of its own
logger_Any(key, val) == [ZeroField EXCEPT !.Key = key, !.Type = "anyType", !.Any = val]

\* a Field literal with a tag no case handles
FieldOfType(key, type) == [ZeroField EXCEPT !.Key = key, !.Type = type]

\* decimal digits of a natural number below 100
Itoa(n) ==
    LET Digit(i) == <<"0", "1", "2", "3", "4", "5", "6", "7", "8", "9">>[i + 1]
    IN IF n < 10 THEN <<Digit(n)>> ELSE <<Digit(n \div 10), Digit(n % 10)>>

\* json.Marshal(v): a string is quoted, an int is written in decimal, a
\* channel is an unsupported type
jsonMarshal(v) ==
    CASE v.go = "string" -> [err |-> FALSE, str |-> <<"\"">> \o v.str \o <<"\"">>]
      [] v.go = "int"    -> [err |-> FALSE, str |-> Itoa(v.int)]
      [] v.go = "nil"    -> [err |-> FALSE, str |-> <<"n", "u", "l", "l">>]
      [] OTHER           -> [err |-> TRUE, str |-> <<>>]

\* attribute.Bool/Int/Int64/Float64/String/...: Int converts to int64
KeyValue(key, type, val) == [k |-> key, t |-> type, v |-> val]

\* the switch of FieldsToKeyValues on one field
KeyValueOfAnyAlways(f) ==
    CASE f.Type = "boolType"         -> <<KeyValue(f.Key, "BOOL", f.Bool)>>
      [] f.Type = "boolSliceType"    -> <<KeyValue(f.Key, "BOOLSLICE", f.Bools)>>
      [] f.Type = "intType"          -> <<KeyValue(f.Key, "INT64", f.Integer)>>
      [] f.Type = "intSliceType"     -> <<KeyValue(f.Key, "INT64SLICE", f.Integers)>>
      [] f.Type = "int64Type"        -> <<KeyValue(f.Key, "INT64", f.Integer64)>>
      [] f.Type = "int64SliceType"   -> <<KeyValue(f.Key, "INT64SLICE", f.Integer64s)>>
      [] f.Type = "float64Type"      -> <<KeyValue(f.Key, "FLOAT64", f.Float64)>>
      [] f.Type = "float64SliceType" -> <<KeyValue(f.Key, "FLOAT64SLICE", f.Float64s)>>
      [] f.Type = "stringType"       -> <<KeyValue(f.Key, "STRING", f.String)>>
      [] f.Type = "stringSliceType"  -> <<KeyValue(f.Key, "STRINGSLICE", f.Strings)>>
      [] f.Type = "stringerType"     -> <<KeyValue(f.Key, "STRING", f.String)>>
      [] f.Type = "anyType"          -> <<KeyValue(f.Key, "STRING", jsonMarshal(f.Any).str)>>
      [] OTHER                       -> <<>>

KeyValueOf(f) ==
    CASE f.Type = "boolType"         -> <<KeyValue(f.Key, "BOOL", f.Bool)>>
      [] f.Type = "boolSliceType"    -> <<KeyValue(f.Key, "BOOLSLICE", f.Bools)>>
      [] f.Type = "intType"          -> <<KeyValue(f.Key, "INT64", f.Integer)>>
      [] f.Type = "intSliceType"     -> <<KeyValue(f.Key, "INT64SLICE", f.Integers)>>
      [] f.Type = "int64Type"        -> <<KeyValue(f.Key, "INT64", f.Integer64)>>
      [] f.Type = "int64SliceType"   -> <<KeyValue(f.Key, "INT64SLICE", f.Integer64s)>>
      [] f.Type = "float64Type"      -> <<KeyValue(f.Key, "FLOAT64", f.Float64)>>
      [] f.Type = "float64SliceType" -> <<KeyValue(f.Key, "FLOAT64SLICE", f.Float64s)>>
      [] f.Type = "stringType"       -> <<KeyValue(f.Key, "STRING", f.String)>>
      [] f.Type = "stringSliceType"  -> <<KeyValue(f.Key, "STRINGSLICE", f.Strings)>>
      [] f.Type = "stringerType"     -> <<KeyValue(f.Key, "STRING", f.String)>>
      [] f.Type = "anyType"          -> LET m == jsonMarshal(f.Any)
                                        IN IF ~m.err THEN <<KeyValue(f.Key, "STRING", m.str)>>
                                           ELSE <<>>
      [] OTHER                       -> <<>>

\* FieldsToKeyValues(fields...)
RECURSIVE FieldsToKeyValues(_)
FieldsToKeyValues(fields) ==
    IF fields = <<>> THEN <<>>
    ELSE KeyValueOf(Head(fields)) \o FieldsToKeyValues(Tail(fields))

\* zap.Any(key, value): a typed field for the types zap knows, Reflect for
\* the others
zapAny(key, val) ==
    CASE val.go = "string" -> KeyValue(key, "StringType", val.str)
      [] val.go = "int"    -> KeyValue(key, "Int64Type", val.int)
      [] OTHER             -> KeyValue(key, "ReflectType", val)

\* the switch of FieldsToZapFields on one field; zap.Int is an Int64Type field
ZapFieldOfIntFrom64(f) ==
    CASE f.Type = "boolType"         -> <<KeyValue(f.Key, "BoolType", f.Bool)>>
      [] f.Type = "boolSliceType"    -> <<KeyValue(f.Key, "ArrayMarshalerType", f.Bools)>>
      [] f.Type = "intType"          -> <<KeyValue(f.Key, "Int64Type", f.Integer64)>>
      [] f.Type = "intSliceType"     -> <<KeyValue(f.Key, "ArrayMarshalerType", f.Integers)>>
      [] f.Type = "int64Type"        -> <<KeyValue(f.Key, "Int64Type", f.Integer64)>>
      [] f.Type = "int64SliceType"   -> <<KeyValue(f.Key, "ArrayMarshalerType", f.Integer64s)>>
      [] f.Type = "float64Type"      -> <<KeyValue(f.Key, "Float64Type", f.Float64)>>
      [] f.Type = "float64SliceType" -> <<KeyValue(f.Key, "ArrayMarshalerType", f.Float64s)>>
      [] f.Type = "stringType"       -> <<KeyValue(f.Key, "StringType", f.String)>>
      [] f.Type = "stringSliceType"  -> <<KeyValue(f.Key, "ArrayMarshalerType", f.Strings)>>
      [] f.Type = "stringerType"     -> <<KeyValue(f.Key, "StringType", f.String)>>
      [] f.Type = "anyType"          -> <<zapAny(f.Key, f.Any)>>
      [] OTHER                       -> <<>>

ZapFieldOf(f) ==
    CASE f.Type = "boolType"         -> <<KeyValue(f.Key, "BoolType", f.Bool)>>
      [] f.Type = "boolSliceType"    -> <<KeyValue(f.Key, "ArrayMarshalerType", f.Bools)>>
      [] f.Type = "intType"          -> <<KeyValue(f.Key, "Int64Type", f.Integer)>>
      [] f.Type = "intSliceType"     -> <<KeyValue(f.Key, "ArrayMarshalerType", f.Integers)>>
      [] f.Type = "int64Type"        -> <<KeyValue(f.Key, "Int64Type", f.Integer64)>>
      [] f.Type = "int64SliceType"   -> <<KeyValue(f.Key, "ArrayMarshalerType", f.Integer64s)>>
      [] f.Type = "float64Type"      -> <<KeyValue(f.Key, "Float64Type", f.Float64)>>
      [] f.Type = "float64SliceType" -> <<KeyValue(f.Key, "ArrayMarshalerType", f.Float64s)>>
      [] f.Type = "stringType"       -> <<KeyValue(f.Key, "StringType", f.String)>>
      [] f.Type = "stringSliceType"  -> <<KeyValue(f.Key, "ArrayMarshalerType", f.Strings)>>
      [] f.Type = "stringerType"     -> <<KeyValue(f.Key, "StringType", f.String)>>
      [] f.Type = "anyType"          -> <<zapAny(f.Key, f.Any)>>
      [] OTHER                       -> <<>>

\* the loop of FieldsToZapFields over the fields
RECURSIVE ZapFieldsOf(_)
ZapFieldsOf(fields) ==
    IF fields = <<>> THEN <<>>
    ELSE ZapFieldOf(Head(fields)) \o ZapFieldsOf(Tail(fields))

\* --------------------------------------------------------------- emission
LevelRank(l) == CASE l = "debug" -> 0 [] l = "info" -> 1 [] l = "warn" -> 2
                  [] l = "error" -> 3 [] l = "fatal" -> 4

\* FieldsToZapFields(ctx, fields...): the fields projected from the context,
\* then the fields of the call (the emission calls of the model pass none)
FieldsToZapFieldsAlways(c, fields) ==
    <<KeyValue("trace_id", "StringType", TraceID(c)),
      KeyValue("span_id", "StringType", SpanID(c))>>
    \o ZapFieldsOf(fields)

FieldsToZapFields(c, fields) ==
    (IF TraceID(c) # <<>> THEN <<KeyValue("trace_id", "StringType", TraceID(c))>> ELSE <<>>)
    \o (IF SpanID(c) # <<>> THEN <<KeyValue("span_id", "StringType", SpanID(c))>> ELSE <<>>)
    \o ZapFieldsOf(fields)

\* the log records logger.<Level>(msg, ...) writes behind the enable_log test
LogWrite(level, c) ==
    IF enable_log /\ logger # NilLogger /\ LevelRank(level) >= LevelRank(logger.level)
    THEN <<[level |-> level, msg |-> "msg", fields |-> FieldsToZapFields(c, <<>>)]>>
    ELSE <<>>

AddEvent == [m |-> "AddEvent", k |-> "", v |-> 0]

RecordError == [m |-> "RecordError", k |-> "", v |-> 0]

SetAttributes(k, v) == [m |-> "SetAttributes", k |-> k, v |-> v]

\* the span part of Debug/Info/Warn/Error/SetSpanAttr: the calls made on the
\* span of the LoggerSpanContext copy read from the context
SpanCalls(op, c) ==
    LET ok == Ctx(c).hasLSC
        loggerSpanContext == Ctx(c).lsc
    IN
    IF ~ok THEN <<>>
    ELSE IF ~loggerSpanContext.startSpan THEN <<>>
    ELSE IF ~config.EnableTrace THEN <<>>
    ELSE CASE op \in {"Debug", "Info"} -> <<AddEvent>>
           [] op = "Warn"  -> <<SetAttributes("warns", loggerSpanContext.warnCount + 1), AddEvent>>
           [] op = "Error" -> <<SetAttributes("errors", loggerSpanContext.errorCount + 1), RecordError>>
           [] op = "Fatal" -> <<RecordError>>
           [] op = "SetSpanAttr" -> <<SetAttributes("attr", 0)>>

Counted(c, field) == IF c = 0 THEN 0 ELSE emitted[c][field]

\* the Warn and Error calls made so far on the contexts 1..n
RECURSIVE EmittedUpTo(_)
EmittedUpTo(n) ==
    IF n = 0 THEN 0 ELSE Counted(n, "warn") + Counted(n, "error") + EmittedUpTo(n - 1)

\* what Debug/Info/Warn/Error do: the log write, then the span part
EmitBody(op, level, c) ==
    last' = [NoCall EXCEPT !.op = op, !.ctx = c, !.res = "ok",
                           !.logs = LogWrite(level, c), !.calls = SpanCalls(op, c)]

EmitCall(op, level, c) ==
    /\ proc = "running"
    /\ EmitBody(op, level, c)
    /\ UNCHANGED <<config, enable_log, logger, provider, reqClient, rotateCrondOnce, cronJobs, propagator, sampler, spanCount, ctxs, spanEnded,
                   endCalled, proc, g>>

Debug ==
    \E c \in CtxIds : EmitCall("Debug", "debug", c) /\ UNCHANGED emitted

Info ==
    \E c \in CtxIds : EmitCall("Info", "info", c) /\ UNCHANGED emitted

Warn ==
    \E c \in CtxIds :
       /\ EmittedUpTo(Len(ctxs)) < MaxEmit
       /\ EmitCall("Warn", "warn", c)
       /\ emitted' = IF c = 0 THEN emitted ELSE [emitted EXCEPT ![c].warn = @ + 1]

Error ==
    \E c \in CtxIds :
       /\ EmittedUpTo(Len(ctxs)) < MaxEmit
       /\ EmitCall("Error", "error", c)
       /\ emitted' = IF c = 0 THEN emitted ELSE [emitted EXCEPT ![c].error = @ + 1]

\* Fatal: logger.Fatal writes the record and ends the process with os.Exit,
\* which runs no deferred function
Fatal ==
    /\ proc = "running"
    /\ \E c \in CtxIds :
          IF enable_log
          THEN /\ proc' = "exit"
               /\ last' = [NoCall EXCEPT !.op = "Fatal", !.ctx = c, !.res = "exit",
                                         !.logs = <<[level |-> "fatal", msg |-> "msg",
                                                      fields |-> FieldsToZapFields(c, <<>>)]>>]
          ELSE /\ proc' = proc
               /\ last' = [NoCall EXCEPT !.op = "Fatal", !.ctx = c, !.res = "ok",
                                         !.calls = SpanCalls("Fatal", c)]
    /\ UNCHANGED <<config, enable_log, logger, provider, reqClient, rotateCrondOnce, cronJobs, propagator, sampler, spanCount, ctxs, spanEnded,
                   endCalled, emitted, g>>

SetSpanAttr ==
    /\ proc = "running"
    /\ \E c \in CtxIds :
          last' = [NoCall EXCEPT !.op = "SetSpanAttr", !.ctx = c, !.res = "ok",
                                 !.calls = SpanCalls("SetSpanAttr", c)]
    /\ UNCHANGED <<config, enable_log, logger, provider, reqClient, rotateCrondOnce, cronJobs, propagator, sampler, spanCount, ctxs, spanEnded,
                   endCalled, emitted, proc, g>>

\* a deferred End(ctx) reached by a panic of the traced function
EndPanic ==
    /\ proc = "running"
    /\ \E c \in CtxIds : EndCall(c, TRUE)
    /\ UNCHANGED <<config, enable_log, logger, provider, reqClient, rotateCrondOnce, cronJobs, propagator, sampler, ctxs, emitted, g>>

EmitConfigs == {conf \in Configs : conf.TracerProviderType = "file" /\ conf.MaxSpan = 0
                                   /\ conf.Rotate = <<>>}

InitEmit == InitFrom(EmitConfigs)

StartEmit == StartUpTo(MaxCtxEmit)

NextEmit ==
    \/ InitEmit
    \/ StartEmit
    \/ End
    \/ EndPanic
    \/ SetSpanAttr
    \/ Debug
    \/ Info
    \/ Warn
    \/ Error
    \/ Fatal

SpecEmit == Init /\ [][NextEmit]_vars

\* ------------------------------------------------------------ package logx
\* The later version of the package: no ceiling and no active flag, and a
\* remote push (lokiPush) between the log write and the span part. In its
\* specification g is the list of the goroutines lokiPush has started, each
\* one the state of its HTTP POST.
logx_Configs ==
    [Debug : BOOLEAN, EnableTrace : BOOLEAN, Output : {"", "console"},
     TracerProviderType : {"", "file", "zipkin"}, LokiServer : {"", "http://loki"},
     Rotate : {<<>>}, MaxAge : {0}, TraceSampleRatio : {[half |-> 1]}]

\* Init(conf, serviceName)
logx_InitCall(conf, exporterFails) ==
    LET tpt == IF conf.TracerProviderType = "" THEN "oltp" ELSE conf.TracerProviderType
        unsupported == conf.EnableTrace /\ tpt \notin {"oltp", "file"}
        pd  == IF ~conf.EnableTrace THEN Nil
               ELSE IF tpt = "oltp" THEN (IF exporterFails THEN Nil ELSE "oltp")
               ELSE IF tpt = "file" THEN "file"
               ELSE Nil
        none == IF conf.Output = "" THEN "none" ELSE conf.Output
        logs == none # "none"
        out == IF logs /\ none \notin {"file", "console"} THEN "console" ELSE none
        age == IF logs /\ conf.MaxAge = 0 THEN DefaultMaxAge ELSE conf.MaxAge
        zapLogger == newHook(newZapLogger(conf))
    IN
    /\ reqClient' = IF conf.LokiServer # "" THEN "client" ELSE reqClient
    \* NewOLTPProvider replaces the propagator Init has just set
    /\ propagator' = IF ~unsupported /\ pd = "oltp" THEN TraceContextBaggage ELSE b3_New
    /\ IF unsupported
       THEN /\ config' = conf
            /\ proc' = "exit"
            /\ last' = [NoCall EXCEPT !.op = "Init", !.res = "fatal"]
            /\ UNCHANGED <<enable_log, logger, provider, sampler, rotateCrondOnce, cronJobs>>
       ELSE /\ config' = [conf EXCEPT !.Output = out, !.MaxAge = age]
            /\ provider' = IF pd # Nil THEN pd ELSE provider
            /\ sampler' = IF pd = "oltp" THEN NewOLTPProvider(conf)
                          ELSE IF pd = "file" THEN NewFileProvider(conf)
                          ELSE sampler
            /\ enable_log' = IF logs THEN TRUE ELSE enable_log
            /\ logger' = IF logs THEN zapLogger ELSE logger
            /\ IF logs THEN rotateCrond(zapLogger, conf)
                       ELSE UNCHANGED <<rotateCrondOnce, cronJobs>>
            /\ proc' = proc
            /\ last' = [NoCall EXCEPT !.op = "Init", !.res = "ok", !.args = <<conf>>]

logx_Init ==
    /\ proc = "running"
    /\ last.op = "none"
    /\ \E conf \in logx_Configs, exporterFails \in BOOLEAN : logx_InitCall(conf, exporterFails)
    /\ UNCHANGED <<spanCount, ctxs, spanEnded, endCalled, emitted, g>>

\* noop.NewTracerProvider().Tracer("").Start(ctx, ...): a no-op span that
\* keeps the span context found in ctx
logx_noopStart(c) ==
    [kind |-> IF Ctx(c).span.kind = "remote" THEN "remote" ELSE "noop",
     tid |-> Ctx(c).span.tid, sid |-> Ctx(c).span.sid]

\* Start(ctx, spanName)
logx_Start ==
    /\ proc = "running"
    /\ Len(ctxs) < MaxCtxLogx
    /\ \E c \in CtxIds :
          LET n == Len(ctxs) + 1
              enableTrace == config.EnableTrace
              span == IF enableTrace THEN sdkStart(c, n) ELSE logx_noopStart(c)
          IN
          IF enableTrace /\ provider = Nil
          THEN /\ proc' = "panic"
               /\ last' = [NoCall EXCEPT !.op = "Start", !.ctx = c, !.res = "panic"]
               /\ UNCHANGED <<ctxs, emitted>>
          ELSE /\ ctxs' = Append(ctxs, [parent |-> c, hasLSC |-> TRUE, lsc |-> NoLSC,
                                        span |-> span, src |-> <<>>])
               /\ emitted' = Append(emitted, [warn |-> 0, error |-> 0])
               /\ proc' = proc
               /\ last' = [NoCall EXCEPT !.op = "Start", !.ctx = c,
                                         !.res = IF enableTrace THEN "real" ELSE "noop"]
    /\ UNCHANGED <<config, enable_log, logger, provider, reqClient, rotateCrondOnce, cronJobs, propagator, sampler, spanCount, spanEnded,
                   endCalled, g>>

\* End(ctx), no panic in flight
logx_End ==
    /\ proc = "running"
    /\ \E c \in CtxIds :
          /\ last' = [NoCall EXCEPT !.op = "End", !.ctx = c, !.res = "ok",
                                    !.rep = (last.op = "End" /\ last.ctx = c)]
          /\ endCalled' = endCalled \cup {c}
          /\ spanEnded' = IF Ctx(c).hasLSC /\ config.EnableTrace
                          THEN spanEnded \cup {c} ELSE spanEnded
    /\ UNCHANGED <<config, enable_log, logger, provider, reqClient, rotateCrondOnce, cronJobs, propagator, sampler, spanCount, ctxs,
                   emitted, proc, g>>

\* the call an emission makes on the span: behind the ok test and the
\* EnableTrace test
logx_SpanCalls(op, c) ==
    IF ~Ctx(c).hasLSC THEN <<>>
    ELSE IF ~config.EnableTrace THEN <<>>
    ELSE IF op \in {"Debug", "Info", "Warn"} THEN <<AddEvent>> ELSE <<RecordError>>

\* lokiPush: nothing without a client; otherwise the record is built and a
\* goroutine is started that posts it
lokiPushFailing(pushes) ==
    IF reqClient = Nil THEN pushes ELSE Append(pushes, [pc |-> "failed"])

lokiPush(pushes) ==
    IF reqClient = Nil THEN pushes ELSE Append(pushes, [pc |-> "posting"])

\* Debug / Info / Warn / Error / Fatal: (1) the log write behind enable_log,
\* (2) lokiPush behind config.LokiServer, (3) the span part, which Fatal
\* defers. logger.Fatal ends the process at step (1).
logx_EmitCall(op, level, c) ==
    LET s1 == enable_log
        exits == op = "Fatal" /\ s1
        s2 == ~exits /\ config.LokiServer # ""
        s3 == ~exits /\ Ctx(c).hasLSC /\ config.EnableTrace
        logs == IF exits THEN <<[level |-> "fatal", msg |-> "msg", fields |-> FieldsToZapFields(c, <<>>)]>>
                ELSE IF s1 THEN LogWrite(level, c) ELSE <<>>
    IN
    /\ proc = "running"
    /\ Len(g) < MaxPush
    /\ proc' = IF exits THEN "exit" ELSE proc
    /\ g' = IF s2 THEN lokiPush(g) ELSE g
    /\ last' = [NoCall EXCEPT !.op = op, !.ctx = c,
                              !.res = IF exits THEN "exit" ELSE "ok",
                              !.logs = logs,
                              !.calls = IF s3 THEN logx_SpanCalls(op, c) ELSE <<>>,
                              !.steps = (IF s1 THEN <<"log">> ELSE <<>>)
                                        \o (IF s2 THEN <<"push">> ELSE <<>>)
                                        \o (IF s3 THEN <<"span">> ELSE <<>>)]
    /\ UNCHANGED <<config, enable_log, logger, provider, reqClient, rotateCrondOnce, cronJobs, propagator, sampler, spanCount, ctxs,
                   spanEnded, endCalled, emitted>>

logx_Debug == \E c \in CtxIds : logx_EmitCall("Debug", "debug", c)

logx_Info == \E c \in CtxIds : logx_EmitCall("Info", "info", c)

logx_Warn == \E c \in CtxIds : logx_EmitCall("Warn", "warn", c)

logx_Error == \E c \in CtxIds : logx_EmitCall("Error", "error", c)

logx_Fatal == \E c \in CtxIds : logx_EmitCall("Fatal", "fatal", c)

\* the goroutine of lokiPush: the POST returns, with its result dropped, or
\* fails, or is cut off by the 3 s timeout of its context
PushOutcomes == {"ok", "failed", "timeout"}

logx_PushDone ==
    /\ proc = "running"
    /\ \E i \in 1..Len(g), outcome \in PushOutcomes :
          /\ g[i].pc = "posting"
          /\ g' = [g EXCEPT ![i].pc = outcome]
    /\ UNCHANGED <<config, enable_log, logger, provider, reqClient, rotateCrondOnce, cronJobs, propagator, sampler, spanCount, ctxs,
                   spanEnded, endCalled, emitted, proc, last>>

NextLogx ==
    \/ logx_Init
    \/ logx_Start
    \/ logx_End
    \/ logx_Debug
    \/ logx_Info
    \/ logx_Warn
    \/ logx_Error
    \/ logx_Fatal
    \/ logx_PushDone

SpecLogx == Init /\ [][NextLogx]_vars

\* ------------------------------------------------------ end-to-end scenario
\* One goroutine runs
\*   Init(conf); ctx1 := Start(bg, "job"); Info(ctx1, "started");
\*   ctx2 := Start(ctx1, "step"); Error(ctx2, "failed"); End(ctx2); End(ctx1)
\* g is its position (pc), the conf it passed, the contexts it holds, the
\* log records written so far (lines) and the calls made so far on the
\* spans (events).
E2EConfigs ==
    [Debug : BOOLEAN, EnableTrace : BOOLEAN, Output : {"", "none", "console"},
     TracerProviderType : {"file"}, MaxSpan : {0, 1, 2}, Rotate : {<<>>}, MaxAge : {0}, TraceSampleRatio : {[half |-> 1]}]

InitE2E ==
    /\ InitGlobals
    /\ g = [pc |-> 0, conf |-> config, ctx1 |-> 0, ctx2 |-> 0, lines |-> <<>>, events |-> <<>>]

\* the calls of the last call, tagged with the context they were made on
Tagged(calls, c) == [i \in 1..Len(calls) |-> [ctx |-> c, call |-> calls[i]]]

E2EInit ==
    /\ proc = "running"
    /\ g.pc = 0
    /\ \E conf \in E2EConfigs :
          /\ InitCall(conf, FALSE)
          /\ g' = [g EXCEPT !.pc = 1, !.conf = conf]
    /\ UNCHANGED <<spanCount, ctxs, spanEnded, endCalled, emitted>>

E2EStart ==
    /\ proc = "running"
    /\ g.pc \in {1, 3}
    /\ StartCall(IF g.pc = 1 THEN 0 ELSE g.ctx1)
    /\ g' = IF g.pc = 1 THEN [g EXCEPT !.pc = 2, !.ctx1 = Len(ctxs) + 1]
                        ELSE [g EXCEPT !.pc = 4, !.ctx2 = Len(ctxs) + 1]
    /\ UNCHANGED <<config, enable_log, logger, provider, reqClient, rotateCrondOnce, cronJobs, propagator, sampler, spanEnded, endCalled>>

E2EInfo ==
    /\ proc = "running"
    /\ g.pc = 2
    /\ EmitBody("Info", "info", g.ctx1)
    /\ g' = [g EXCEPT !.pc = 3, !.lines = @ \o last'.logs,
                      !.events = @ \o Tagged(last'.calls, g.ctx1)]
    /\ UNCHANGED <<config, enable_log, logger, provider, reqClient, rotateCrondOnce, cronJobs, propagator, sampler, spanCount, ctxs, spanEnded,
                   endCalled, emitted, proc>>

E2EError ==
    /\ proc = "running"
    /\ g.pc = 4
    /\ EmitBody("Error", "error", g.ctx2)
    /\ emitted' = [emitted EXCEPT ![g.ctx2].error = @ + 1]
    /\ g' = [g EXCEPT !.pc = 5, !.lines = @ \o last'.logs,
                      !.events = @ \o Tagged(last'.calls, g.ctx2)]
    /\ UNCHANGED <<config, enable_log, logger, provider, reqClient, rotateCrondOnce, cronJobs, propagator, sampler, spanCount, ctxs, spanEnded,
                   endCalled, proc>>

E2EEnd ==
    /\ proc = "running"
    /\ g.pc \in {5, 6}
    /\ EndCall(IF g.pc = 5 THEN g.ctx2 ELSE g.ctx1, FALSE)
    /\ g' = [g EXCEPT !.pc = @ + 1, !.lines = @ \o last'.logs]
    /\ UNCHANGED <<config, enable_log, logger, provider, reqClient, rotateCrondOnce, cronJobs, propagator, sampler, ctxs, emitted>>

NextE2E ==
    \/ E2EInit
    \/ E2EStart
    \/ E2EInfo
    \/ E2EError
    \/ E2EEnd

SpecE2E == InitE2E /\ [][NextE2E]_vars

\* ------------------------------------------------------------ concurrency
\* Workers call Start(root, ...) and then End on the context Start returned,
\* root being the context the main goroutine got from Start(Background).
\* A step is one access to spanCount.count (Load, Store or Delete of the
\* sync.Map) together with the local code around it.
Workers == 1..NumWorkers

Root == 1

IdleWorker == [pc |-> "idle", oldCount |-> 0, ctx |-> 0]

InitConc ==
    /\ InitGlobals
    /\ g = [w \in Workers |-> IdleWorker]

ConcConfigs == {conf \in Configs : ~conf.Debug /\ conf.Output = "none"
                                   /\ conf.TracerProviderType = "file"
                                   /\ conf.Rotate = <<>>}

ConcInit == InitFrom(ConcConfigs)

\* main goroutine: root := Start(context.Background(), ...)
ConcStartRoot ==
    /\ ctxs = <<>>
    /\ StartCall(0)
    /\ proc = "running"
    /\ UNCHANGED <<config, enable_log, logger, provider, reqClient, rotateCrondOnce, cronJobs, propagator, sampler, spanEnded, endCalled, g>>

\* main goroutine: End(root)
ConcEndRoot ==
    /\ proc = "running"
    /\ Len(ctxs) >= 1
    /\ EndCall(Root, FALSE)
    /\ UNCHANGED <<config, enable_log, logger, provider, reqClient, rotateCrondOnce, cronJobs, propagator, sampler, ctxs, emitted, g>>

\* Start, first access: spanCount.get and the comparison with the ceiling;
\* a no-op span is created and returned at once
WorkerStartGet(w) ==
    /\ proc = "running"
    /\ Len(ctxs) >= 1
    /\ g[w].pc = "idle"
    /\ LET key == CountKey(Root)
           enableTrace == IF CeilingReached(spanCountT_get(spanCount, key[1], key[2]), config.MaxSpan)
                          THEN FALSE ELSE config.EnableTrace
           n == Len(ctxs) + 1
       IN  IF enableTrace
           THEN /\ g' = [g EXCEPT ![w].pc = "traced"]
                /\ UNCHANGED <<ctxs, emitted, last>>
           ELSE /\ ctxs' = Append(ctxs, [parent |-> Root, hasLSC |-> TRUE,
                                         lsc |-> [NoLSC EXCEPT !.startSpan = TRUE],
                                         span |-> noopStart(Root), src |-> <<>>])
                /\ emitted' = Append(emitted, [warn |-> 0, error |-> 0])
                /\ g' = [g EXCEPT ![w].pc = "started", ![w].ctx = n]
                /\ last' = [NoCall EXCEPT !.op = "Start", !.ctx = Root, !.res = "noop"]
    /\ UNCHANGED <<config, enable_log, logger, provider, reqClient, rotateCrondOnce, cronJobs, propagator, sampler, spanCount, spanEnded, endCalled, proc>>

\* Start, second access: the span is created, then increase reads the count
WorkerIncreaseGet(w) ==
    /\ proc = "running"
    /\ g[w].pc = "traced"
    /\ LET key == CountKey(Root)
       IN  g' = [g EXCEPT ![w].pc = "read",
                          ![w].oldCount = spanCountT_get(spanCount, key[1], key[2])]
    /\ UNCHANGED <<config, enable_log, logger, provider, reqClient, rotateCrondOnce, cronJobs, propagator, sampler, spanCount, ctxs, spanEnded,
                   endCalled, emitted, proc, last>>

\* Start, third access: increase stores oldCount + 1; Start returns
WorkerIncreaseSet(w) ==
    /\ proc = "running"
    /\ g[w].pc = "read"
    /\ LET key == CountKey(Root)
           n == Len(ctxs) + 1
       IN  /\ spanCount' = spanCountT_set(spanCount, key[1], key[2], g[w].oldCount + 1)
           /\ ctxs' = Append(ctxs, [parent |-> Root, hasLSC |-> TRUE,
                                    lsc |-> [NoLSC EXCEPT !.startSpan = TRUE],
                                    span |-> sdkStart(Root, n), src |-> <<>>])
           /\ emitted' = Append(emitted, [warn |-> 0, error |-> 0])
           /\ g' = [g EXCEPT ![w].pc = "started", ![w].ctx = n]
           /\ last' = [NoCall EXCEPT !.op = "Start", !.ctx = Root, !.res = "real"]
    /\ UNCHANGED <<config, enable_log, logger, provider, reqClient, rotateCrondOnce, cronJobs, propagator, sampler, spanEnded, endCalled, proc>>

\* End on the context Start returned
WorkerEnd(w) ==
    /\ proc = "running"
    /\ g[w].pc = "started"
    /\ EndCall(g[w].ctx, FALSE)
    /\ g' = [g EXCEPT ![w].pc = "done"]
    /\ UNCHANGED <<config, enable_log, logger, provider, reqClient, rotateCrondOnce, cronJobs, propagator, sampler, ctxs, emitted>>

NextConc ==
    \/ ConcInit
    \/ ConcStartRoot
    \/ ConcEndRoot
    \/ \E w \in Workers : WorkerStartGet(w)
    \/ \E w \in Workers : WorkerIncreaseGet(w)
    \/ \E w \in Workers : WorkerIncreaseSet(w)
    \/ \E w \in Workers : WorkerEnd(w)

SpecConc == InitConc /\ [][NextConc]_vars

\* ------------------------------------------------------------ properties
RealSpan(c) == c # 0 /\ Ctx(c).hasLSC /\ Ctx(c).span.kind = "sdk"

\* the contexts returned by Start(p, ...), in the order of the calls
StartedUnder(p) == {i \in 1..Len(ctxs) : ctxs[i].hasLSC /\ ctxs[i].parent = p}

RealUnder(p) == {i \in StartedUnder(p) : RealSpan(i)}

\* C1: under a parent that carries a real span and has not been ended, the
\* k-th Start creates a real span exactly when k <= MaxSpan (so the first
\* MaxSpan children are real and the next one is a no-op span, whether or
\* not earlier children were ended), and no Start under it panics.
C1_SequentialCeiling ==
    /\ \A p \in 1..Len(ctxs) :
          (RealSpan(p) /\ p \notin endCalled) =>
             \A i \in StartedUnder(p) :
                RealSpan(i) <=> (Cardinality({j \in StartedUnder(p) : j <= i}) <= config.MaxSpan)
    /\ (last.op = "Start" /\ last.res = "panic") => ~RealSpan(last.ctx)

C1_Witness ==
    \E p \in 1..Len(ctxs) :
       /\ config.EnableTrace
       /\ RealSpan(p) /\ p \notin endCalled
       /\ Cardinality(StartedUnder(p)) = config.MaxSpan + 1
       /\ Cardinality(RealUnder(p)) = config.MaxSpan
       /\ \E i \in RealUnder(p) : i \in endCalled
       /\ last.op = "Start" /\ last.ctx = p /\ last.res = "noop"

\* C7 as claimed: the real spans created beneath the root of one trace
\* (children, grandchildren and deeper) never number more than MaxSpan.
C7_TraceWideCeiling ==
    \A r \in 1..Len(ctxs) :
       RealSpan(r) =>
          Cardinality({d \in 1..Len(ctxs) :
                          /\ RealSpan(d) /\ RealSpan(ctxs[d].parent)
                          /\ ctxs[d].span.tid = ctxs[r].span.tid}) <= config.MaxSpan

\* C7 amended: the entry a Start increments is keyed by the identity of the
\* context passed to Start (the immediate parent) at every depth: for a
\* context that carries a real span and has not been ended, the stored count
\* is the number of real spans started directly under it, at most MaxSpan.
C7_PerParentCeiling ==
    \A p \in 1..Len(ctxs) :
       (RealSpan(p) /\ p \notin endCalled) =>
          /\ spanCountT_get(spanCount, TraceID(p), SpanID(p)) = Cardinality(RealUnder(p))
          /\ Cardinality(RealUnder(p)) <= config.MaxSpan

C7_Witness ==
    \E p \in 1..Len(ctxs), c \in 1..Len(ctxs), d \in 1..Len(ctxs) :
       /\ RealSpan(p) /\ RealSpan(c) /\ RealSpan(d)
       /\ ctxs[c].parent = p /\ ctxs[d].parent = c
       /\ {p, c, d} \cap endCalled = {}
       /\ config.MaxSpan = 1
       /\ spanCountT_get(spanCount, TraceID(p), SpanID(p)) = 1
       /\ spanCountT_get(spanCount, TraceID(c), SpanID(c)) = 1

\* C9: a second End(ctx) right after the first does not panic and leaves the
\* SpanCountTable as the first End left it; no count is ever negative.
C9_EndIdempotent ==
    /\ [](\A k \in DOMAIN spanCount : spanCount[k] >= 0)
    /\ [][(last'.op = "End" /\ last'.rep) =>
             (spanCount' = spanCount /\ proc' = "running" /\ last'.res = "ok")]_vars

C9_Witness ==
    /\ last.op = "End" /\ last.rep /\ last.res = "ok"
    /\ RealSpan(last.ctx)
    /\ DOMAIN spanCount # {}

\* ---- caller-supplied identities
IsHexChar(ch) == ch \in {"0","1","2","3","4","5","6","7","8","9",
                         "a","b","c","d","e","f","A","B","C","D","E","F"}

IsHexString(h, n) == Len(h) = n /\ \A i \in 1..Len(h) : IsHexChar(h[i])

IsLowerHexNonZero(h, n) ==
    /\ Len(h) = n
    /\ \A i \in 1..Len(h) : h[i] \in {"0","1","2","3","4","5","6","7","8","9",
                                      "a","b","c","d","e","f"}
    /\ \E i \in 1..Len(h) : h[i] # "0"

\* a context returned by Start on a NewRootContext result has the trace ID
\* the root context was built from
ChildrenKeepTraceID ==
    \A c \in 1..Len(ctxs) :
       (config.EnableTrace /\ ctxs[c].hasLSC /\ Ctx(ctxs[c].parent).src # <<>>) =>
          TraceID(c) = Ctx(ctxs[c].parent).src[1]

\* C10 as claimed: every 32-hex-character traceID and 16-hex-character
\* spanID is accepted by NewRootContext, and a Start on the result keeps
\* the trace ID.
C10_AnyHexAccepted ==
    /\ (last.op = "NewRootContext" /\ IsHexString(last.args[1], TraceIDHexLen)
          /\ IsHexString(last.args[2], SpanIDHexLen)) => last.res = "ok"
    /\ ChildrenKeepTraceID

\* C10 amended: every traceID of 32 lower-case hex characters that is not
\* all zeros and every spanID of 16 lower-case hex characters that is not
\* all zeros is accepted, and with tracing enabled a Start on the result
\* returns a context whose TraceID is that traceID.
C10_LowerHexNonZeroAccepted ==
    /\ (last.op = "NewRootContext" /\ IsLowerHexNonZero(last.args[1], TraceIDHexLen)
          /\ IsLowerHexNonZero(last.args[2], SpanIDHexLen)) => last.res = "ok"
    /\ ChildrenKeepTraceID

C10_Witness ==
    /\ last.op = "Start" /\ last.res = "real"
    /\ Ctx(last.ctx).src # <<>>
    /\ IsLowerHexNonZero(Ctx(last.ctx).src[1], TraceIDHexLen)
    /\ RealSpan(Len(ctxs)) /\ ctxs[Len(ctxs)].parent = last.ctx
    /\ TraceID(Len(ctxs)) = Ctx(last.ctx).src[1]

\* ---- emission
\* C3 as claimed: the k-th Warn (Error) on a context publishes the span
\* attribute "warns" ("errors") with value k.
C3_CumulativeCounters ==
    /\ (last.op = "Warn" /\ last.calls # <<>>) =>
          last.calls[1] = SetAttributes("warns", emitted[last.ctx].warn)
    /\ (last.op = "Error" /\ last.calls # <<>>) =>
          last.calls[1] = SetAttributes("errors", emitted[last.ctx].error)

\* C4 as claimed: the context's span context is active exactly until
\* End(ctx), and after End(ctx) an emission or SetSpanAttr on that context
\* makes no call on the span.
C4_InactiveAfterEnd ==
    /\ \A c \in 1..Len(ctxs) :
          ctxs[c].hasLSC => (ctxs[c].lsc.startSpan <=> c \notin endCalled)
    /\ (last.op \in {"Debug", "Info", "Warn", "Error", "Fatal", "SetSpanAttr"}
          /\ last.ctx \in endCalled) => last.calls = <<>>

\* C5 as claimed: a deferred End reached by a panic recovers it, writes
\* exactly one error-level "panic" record, ends the span when tracing is
\* enabled and removes the context's SpanCountTable entry.
C5_PanicSafety ==
    (last.op = "End" /\ last.res \in {"recovered", "panic"} /\ Ctx(last.ctx).hasLSC) =>
       /\ last.res = "recovered"
       /\ proc = "running"
       /\ last.logs = <<[level |-> "error", msg |-> "panic"]>>
       /\ config.EnableTrace => last.ctx \in spanEnded
       /\ _md5(TraceID(last.ctx) \o SpanID(last.ctx)) \notin DOMAIN spanCount

\* C6 as claimed: Fatal on a context with an active span, with tracing
\* enabled, always records the error on the span.
C6_FatalAlwaysRecords ==
    (last.op = "Fatal" /\ config.EnableTrace /\ Ctx(last.ctx).hasLSC
       /\ Ctx(last.ctx).lsc.startSpan /\ last.ctx \notin endCalled) =>
       \E i \in 1..Len(last.calls) : last.calls[i] = RecordError

\* ---- concurrency
AllStarted == \A w \in Workers : g[w].pc \in {"started", "done"}

AllDone == \A w \in Workers : g[w].pc = "done"

RootKey == _md5(TraceID(Root) \o SpanID(Root))

\* C2 as claimed: in every interleaving of concurrent Starts under one
\* parent, at most MaxSpan real spans are created under it and the stored
\* count is the number of real spans created.
C2_LinearizableCount ==
    (Len(ctxs) >= 1 /\ RealSpan(Root) /\ Root \notin endCalled) =>
       /\ Cardinality(RealUnder(Root)) <= config.MaxSpan
       /\ AllStarted =>
             spanCountT_get(spanCount, TraceID(Root), SpanID(Root)) = Cardinality(RealUnder(Root))

\* C8 as claimed: once all workers have called Start and End, the table
\* holds no entry for the root's identity, and no count is negative.
C8_NoEntryAfterWorkers ==
    /\ \A k \in DOMAIN spanCount : spanCount[k] >= 0
    /\ (Len(ctxs) >= 1 /\ AllDone) => RootKey \notin DOMAIN spanCount

\* C8 amended: the root's entry is removed by End on the root context
\* itself: once all workers have called Start and End and End(root) has
\* been called after them, the table holds no entry for the root's
\* identity; no count is ever negative.
C8_NoEntryAfterRootEnd ==
    /\ \A k \in DOMAIN spanCount : spanCount[k] >= 0
    /\ (Len(ctxs) >= 1 /\ AllDone /\ last.op = "End" /\ last.ctx = Root)
          => RootKey \notin DOMAIN spanCount

C8_Witness ==
    /\ Len(ctxs) >= 1 /\ AllDone
    /\ last.op = "End" /\ last.ctx = Root /\ ~last.rep
    /\ RealSpan(Root)
    /\ Cardinality(RealUnder(Root)) >= 2
    /\ RootKey \notin DOMAIN spanCount

\* ---- malformed identities
\* wrong length, or a character that is no hex digit
Malformed(h, n) == Len(h) # n \/ \E i \in 1..Len(h) : ~IsHexChar(h[i])

\* C11 as claimed: NewRootContext answers a malformed traceID or spanID with
\* an identity-validation error and without panicking, and a Start on the
\* context it returned with the error creates no span.
C11_MalformedRejected ==
    /\ [](((last.op = "NewRootContext")
            /\ (Malformed(last.args[1], TraceIDHexLen) \/ Malformed(last.args[2], SpanIDHexLen)))
           => (last.res \in {"invalid traceID", "invalid spanID"} /\ proc = "running"))
    /\ [][(last.op = "NewRootContext" /\ last.res # "ok"
             /\ last'.op = "Start" /\ last'.ctx = last.ctx) => last'.res # "real"]_vars

\* ---- generated identities
\* C12 as claimed: every GenTraceID result is 32 hex characters (16
\* timestamp characters followed by 16 random ones), every GenSpanID result
\* is 16 hex characters, and NewRootContext accepts every generated pair.
C12_GeneratedAccepted ==
    (last.op = "NewRootContext") =>
       /\ IsHexString(last.args[1], TraceIDHexLen)
       /\ IsHexString(last.args[2], SpanIDHexLen)
       /\ \E now \in Nows :
             LET stime == FormatInt16(now)
             IN  SubSeq(last.args[1], 1, Len(stime)) = stime
       /\ last.res = "ok"

\* ---- log correlation
EmissionOps == {"Debug", "Info", "Warn", "Error", "Fatal"}

\* the values a record carries under key k
FieldValues(rec, k) == {rec.fields[i].v : i \in {j \in 1..Len(rec.fields) : rec.fields[j].k = k}}

FieldCount(rec, k) == Cardinality({j \in 1..Len(rec.fields) : rec.fields[j].k = k})

SpanRecords == {c \in spanEnded : RealSpan(c)}

EventsOn(c) == SelectSeq(g.events, LAMBDA e : e.ctx = c)

E2EDone == g.pc = 7

\* the conf of the scenario: Init({EnableTrace: true, backend "file"})
E2EClaimedConf ==
    /\ g.conf.EnableTrace /\ g.conf.TracerProviderType = "file"
    /\ ~g.conf.Debug /\ g.conf.Output = "" /\ g.conf.MaxSpan = 0

\* two span records of one trace, and on the child span one error event
\* with the attribute errors=1
E2ESpans ==
    /\ SpanRecords = {g.ctx1, g.ctx2} /\ g.ctx1 # g.ctx2
    /\ ctxs[g.ctx1].span.tid = ctxs[g.ctx2].span.tid
    /\ ctxs[g.ctx2].parent = g.ctx1
    /\ EventsOn(g.ctx2) = Tagged(<<SetAttributes("errors", 1), RecordError>>, g.ctx2)

LineOf(rec, level, c) ==
    /\ rec.level = level
    /\ FieldValues(rec, "trace_id") = {TraceID(g.ctx1)}
    /\ FieldValues(rec, "span_id") = {SpanID(c)}

\* C14 as claimed: the scenario ends with two span records of one trace,
\* one error event with errors=1 on the child span, and two log lines, the
\* first with the span ID of ctx1 and the second with that of ctx2, both
\* with the trace ID.
C14_EndToEndTwoLines ==
    (E2EDone /\ E2EClaimedConf) =>
       /\ E2ESpans
       /\ Len(g.lines) = 2
       /\ LineOf(g.lines[1], "info", g.ctx1)
       /\ LineOf(g.lines[2], "error", g.ctx2)

\* C14 amended: with tracing enabled, the file backend and logging not
\* switched off, the scenario ends with two span records of one trace and
\* one error event with errors=1 on the child span; the Info line is
\* written only when conf.Debug is true. With Debug false, as in the
\* scenario's conf, there is exactly one log line, the Error line, carrying
\* the trace ID and the span ID of ctx2; with Debug true there are two, the
\* Info line with the span ID of ctx1 first.
C14_EndToEndByLevel ==
    (E2EDone /\ g.conf.EnableTrace /\ g.conf.Output # "none") =>
       /\ E2ESpans
       /\ IF g.conf.Debug
          THEN /\ Len(g.lines) = 2
               /\ LineOf(g.lines[1], "info", g.ctx1)
               /\ LineOf(g.lines[2], "error", g.ctx2)
          ELSE /\ Len(g.lines) = 1
               /\ LineOf(g.lines[1], "error", g.ctx2)

C14_Witness ==
    /\ E2EDone /\ E2EClaimedConf
    /\ E2ESpans
    /\ Len(g.lines) = 1
    /\ LineOf(g.lines[1], "error", g.ctx2)

\* ---- package logx: the steps of an emission
\* the steps whose own enabling condition holds for a call on context c
EnabledSteps(c) ==
    (IF enable_log THEN <<"log">> ELSE <<>>)
    \o (IF config.LokiServer # "" THEN <<"push">> ELSE <<>>)
    \o (IF Ctx(c).hasLSC /\ config.EnableTrace THEN <<"span">> ELSE <<>>)

\* C15 as claimed: for each of Debug, Info, Warn, Error and Fatal the steps
\* that ran are exactly the steps whose own enabling condition holds, in the
\* order log write, remote push, span mirroring.
C15_StepsIndependent ==
    (last.op \in EmissionOps) => last.steps = EnabledSteps(last.ctx)

\* ---- package logx: the remote push
LevelOf(op) == CASE op = "Debug" -> "debug" [] op = "Info" -> "info" [] op = "Warn" -> "warn"
                 [] op = "Error" -> "error" [] op = "Fatal" -> "fatal"

\* C16: with a push endpoint configured, (a) the emission call that starts
\* a push has returned normally while the POST is still in flight, (b) the
\* end of a POST, whether it succeeded, failed or timed out, changes nothing
\* the caller can see (no error, no panic, the process keeps running), and
\* (c) whatever became of the pushes so far, a call that returns has written
\* its log record and made its span call exactly as their own conditions
\* say.
C16_PushFireAndForget ==
    /\ [][(last'.op \in EmissionOps /\ Len(g') > Len(g)) =>
             /\ g'[Len(g')].pc = "posting"
             /\ last'.res = "ok" /\ proc' = "running"
             /\ \A i \in 1..Len(g) : g'[i] = g[i]]_vars
    /\ [][(\E i \in 1..Len(g) : g[i].pc = "posting" /\ g'[i].pc # "posting") =>
             /\ proc' = "running" /\ last' = last
             /\ UNCHANGED <<config, enable_log, logger, provider, reqClient, rotateCrondOnce, cronJobs, propagator, sampler, ctxs, spanEnded>>]_vars
    /\ []((last.op \in EmissionOps /\ last.res = "ok") =>
             /\ last.logs = IF enable_log THEN LogWrite(LevelOf(last.op), last.ctx) ELSE <<>>
             /\ last.calls = logx_SpanCalls(last.op, last.ctx))

C16_Witness ==
    /\ Len(g) = 2
    /\ g[1].pc \in {"failed", "timeout"} /\ g[2].pc = "posting"
    /\ last.op = "Error" /\ last.res = "ok"
    /\ last.steps = <<"log", "push", "span">>
    /\ Len(last.logs) = 1 /\ last.calls = <<RecordError>>

\* ---- the NoSpan state
\* C17: on a context on which Start was never called, TraceID and SpanID
\* are the empty string; Debug/Info/Warn/Error make the log write as on any
\* context (one record of the call's level when logging is enabled and the
\* level passes the logger's, with no trace_id or span_id field) and make
\* no call on any span; SetSpanAttr makes no call on any span; End (no
\* panic in flight) ends no span; none of them changes the SpanCountTable
\* or panics.
C17_NoSpanState ==
    /\ [](\A c \in CtxIds : ~Ctx(c).hasLSC => (TraceID(c) = <<>> /\ SpanID(c) = <<>>))
    /\ [][(last'.op \in {"Debug", "Info", "Warn", "Error", "SetSpanAttr"}
             /\ ~Ctx(last'.ctx).hasLSC) =>
             /\ last'.calls = <<>>
             /\ last'.res = "ok" /\ proc' = "running"
             /\ spanCount' = spanCount /\ spanEnded' = spanEnded
             /\ last'.op # "SetSpanAttr" =>
                   last'.logs =
                      IF enable_log /\ LevelRank(LevelOf(last'.op)) >= LevelRank(logger.level)
                      THEN <<[level |-> LevelOf(last'.op), msg |-> "msg", fields |-> <<>>]>>
                      ELSE <<>>]_vars
    /\ [][(last'.op = "End" /\ last'.res = "ok" /\ ~Ctx(last'.ctx).hasLSC) =>
             /\ proc' = "running"
             /\ spanCount' = spanCount /\ spanEnded' = spanEnded /\ ctxs' = ctxs]_vars

C17_Witness ==
    /\ last.op = "Error" /\ last.ctx = 0 /\ last.res = "ok"
    /\ Len(last.logs) = 1 /\ last.calls = <<>>
    /\ config.EnableTrace /\ DOMAIN spanCount # {}
    /\ 0 \in endCalled

\* ---- the no-op span
\* C18 as claimed: when tracing does not apply to a Start (tracing disabled
\* or the ceiling reached), TraceID and SpanID of the returned context are
\* the empty string.
C18_NoopEmptyIdentity ==
    (last.op = "Start" /\ last.res = "noop") =>
       /\ ~RealSpan(Len(ctxs))
       /\ TraceID(Len(ctxs)) = <<>>
       /\ SpanID(Len(ctxs)) = <<>>

\* ---- Init
\* C19: Init with tracing enabled and a TracerProviderType that is neither
\* empty nor a supported value ends the process (log.Fatal): Init does not
\* return, and nothing runs afterwards.
C19_UnsupportedTypeFatal ==
    /\ []((last.op = "Init" /\ config.EnableTrace
             /\ config.TracerProviderType \notin {"", "jaeger", "file"})
            => (last.res = "fatal" /\ proc = "exit"))
    /\ [][proc # "exit"]_vars

C19_Witness ==
    /\ last.op = "Init" /\ last.res = "fatal" /\ proc = "exit"
    /\ config.EnableTrace /\ config.TracerProviderType = "zipkin"

\* C20 as claimed: an Init that returns with tracing enabled has registered
\* a backend, so no Start after it fails for want of one.
C20_BackendAfterInit ==
    /\ (last.op = "Init" /\ last.res = "ok" /\ config.EnableTrace) => provider # Nil
    /\ (last.op = "Start") => last.res # "panic"

\* ---- the ceiling over time
\* C28 as claimed: once a Start under a context P has yielded a no-op span
\* because P's count had reached MaxSpan, every later Start under P yields
\* a no-op span too (the contexts are numbered in the order of the Starts).
C28_StickyCeiling ==
    config.EnableTrace =>
       \A p \in CtxIds :
          \A i \in StartedUnder(p), j \in StartedUnder(p) :
             (i < j /\ ~RealSpan(i)) => ~RealSpan(j)

\* C29 as claimed: with tracing enabled and a backend registered, a Start
\* on a context that carries no span of this system creates a real span,
\* however many such Starts came before.
C29_FreshRootsReal ==
    (last.op = "Start" /\ config.EnableTrace /\ provider # Nil /\ ~Ctx(last.ctx).hasLSC)
       => last.res = "real"

\* the root span above a context: the topmost context of its chain of
\* Starts
RECURSIVE RootOf(_)
RootOf(c) == IF Ctx(Ctx(c).parent).hasLSC THEN RootOf(Ctx(c).parent) ELSE c

\* C30 as claimed: a real span created beneath a root span, through any
\* chain of Starts, has the root span's trace ID.
C30_OneTracePerRoot ==
    \A d \in 1..Len(ctxs) :
       (RealSpan(d) /\ RealSpan(RootOf(d))) => ctxs[d].span.tid = ctxs[RootOf(d)].span.tid

\* ---- the log level
\* C26 as claimed: with local logging enabled, Debug = true makes each of
\* Debug, Info, Warn, Error and Fatal write one record at its own severity,
\* and Debug = false makes only Error and Fatal write one.
C26_LevelByDebugFlag ==
    (last.op \in EmissionOps /\ enable_log) =>
       IF config.Debug \/ last.op \in {"Error", "Fatal"}
       THEN Len(last.logs) = 1 /\ last.logs[1].level = LevelOf(last.op)
       ELSE last.logs = <<>>

\* ------------------------------------------------------- Init, repeatedly
\* g counts the Init calls, keeps the config of the last one, whether any
\* call so far asked for rotation with logging on (asked), and whether every
\* call so far logged to a file with a schedule that parses (rotating)
MaxInit == 2

MaxCtxReinit == 1

\* Init reads Debug only to build the logger, and the backend type only
\* with tracing on
ReinitConfigs ==
    {conf \in [Debug : {FALSE}, EnableTrace : BOOLEAN, Output : {"none", "console", "file"},
               TracerProviderType : {"", "file"}, MaxSpan : {0, 1},
               Rotate : RotateSpecs, MaxAge : {0, 3}, TraceSampleRatio : {[half |-> 1]}] :
        conf.EnableTrace <=> conf.TracerProviderType = "file"}

InitReinit ==
    /\ InitGlobals
    /\ g = [inits |-> 0, conf |-> config, asked |-> FALSE, rotating |-> TRUE]

InitAgain ==
    /\ proc = "running"
    /\ g.inits < MaxInit
    /\ \E conf \in ReinitConfigs, exporterFails \in BOOLEAN :
          /\ InitCall(conf, exporterFails)
          /\ g' = [inits |-> g.inits + 1, conf |-> conf,
                   asked |-> g.asked \/ (conf.Rotate # <<>> /\ conf.Output # "none"),
                   rotating |-> g.rotating /\ conf.Output = "file"
                                   /\ CronSpecOK(conf.Rotate)]
    /\ UNCHANGED <<spanCount, ctxs, spanEnded, endCalled, emitted>>

\* the cron fires a job: zl.lumLogger.Rotate() on the writer the job keeps
RotateFire ==
    /\ proc = "running"
    /\ \E j \in 1..Len(cronJobs) :
          last' = [NoCall EXCEPT !.op = "Rotate", !.args = <<cronJobs[j].lumLogger>>]
    /\ UNCHANGED <<config, enable_log, logger, provider, reqClient, rotateCrondOnce, cronJobs, propagator, sampler,
                   spanCount, ctxs, spanEnded, endCalled, emitted, proc, g>>

StartReinit ==
    /\ g.inits > 0
    /\ StartUpTo(MaxCtxReinit)

NextReinit ==
    \/ InitAgain
    \/ StartReinit
    \/ End
    \/ RotateFire

SpecReinit == InitReinit /\ [][NextReinit]_vars

\* C21: after any sequence of Init calls, whether local logging is enabled,
\* the output mode, whether tracing is enabled and the ceiling are those of
\* the config of the last call
C21_LastWriteWins ==
    g.inits > 0 =>
       /\ enable_log = (g.conf.Output # "none")
       /\ config.Output = g.conf.Output
       /\ config.EnableTrace = g.conf.EnableTrace
       /\ config.MaxSpan = (IF g.conf.MaxSpan = 0 THEN DefaultMaxSpan ELSE g.conf.MaxSpan)

\* C22: at most one rotation job is registered in the process, and exactly
\* one once a call had a non-empty schedule and logging enabled
C22_RotationOnce ==
    /\ Len(cronJobs) <= 1
    /\ g.asked => Len(cronJobs) = 1

\* -------------------------------------------------------- the projections
\* the record lokiPush builds once a client is configured: a Go map
MapPut(m, key, val) == [x \in DOMAIN m \cup {key} |-> IF x = key THEN val ELSE m[x]]

\* a Go value of another type as an interface{}
GoValue(type, val) == [go |-> type, val |-> val]

\* the switch of lokiPush on one attribute: the value stored under its key,
\* an interface{} that holds the member with its type
lokiValueOf(attr) ==
    CASE attr.Type = "boolType"         -> <<GoValue("bool", attr.Bool)>>
      [] attr.Type = "boolSliceType"    -> <<GoValue("[]bool", attr.Bools)>>
      [] attr.Type = "intType"          -> <<GoInt(attr.Integer)>>
      [] attr.Type = "intSliceType"     -> <<GoValue("[]int", attr.Integers)>>
      [] attr.Type = "int64Type"        -> <<GoValue("int64", attr.Integer64)>>
      [] attr.Type = "int64SliceType"   -> <<GoValue("[]int64", attr.Integer64s)>>
      [] attr.Type = "float64Type"      -> <<GoValue("float64", attr.Float64)>>
      [] attr.Type = "float64SliceType" -> <<GoValue("[]float64", attr.Float64s)>>
      [] attr.Type = "stringType"       -> <<GoString(attr.String)>>
      [] attr.Type = "stringSliceType"  -> <<GoValue("[]string", attr.Strings)>>
      [] attr.Type = "stringerType"     -> <<GoString(attr.String)>>
      [] attr.Type = "anyType"          -> <<attr.Any>>
      [] OTHER                          -> <<>>

RECURSIVE lokiAttributes(_, _)
lokiAttributes(kv, attributes) ==
    IF attributes = <<>> THEN kv
    ELSE LET attr == Head(attributes)
             val  == lokiValueOf(attr)
         IN lokiAttributes(IF Len(val) = 0 THEN kv ELSE MapPut(kv, attr.Key, val[1]),
                           Tail(attributes))

\* runtime.Caller(2) formatted as file:line
CallSite == <<"f", ".", "g", "o", ":", "1">>

\* lokiPush past its test of reqClient, up to the record it marshals
lokiRecord(c, level, msg, attributes) ==
    LET kv0 == MapPut(MapPut(<<>>, "level", GoString(level)), "msg", GoString(msg))
        kv1 == IF TraceID(c) # <<>> THEN MapPut(kv0, "trace_id", GoString(TraceID(c))) ELSE kv0
        kv2 == IF SpanID(c) # <<>> THEN MapPut(kv1, "span_id", GoString(SpanID(c))) ELSE kv1
    IN MapPut(lokiAttributes(kv2, attributes), "caller", GoString(CallSite))

\* the fields an emission call may be given: calls of the constructors, and
\* Field literals with a tag no case handles; a call takes at most MaxFields
\* of them, named by their positions in FieldCalls
MaxFields == 2

FieldCalls ==
    << [ctor |-> "Bool", key |-> "k", val |-> TRUE],
      [ctor |-> "Int", key |-> "k", val |-> 7],
      [ctor |-> "Int", key |-> "n", val |-> 0],
      [ctor |-> "Int64", key |-> "k", val |-> 9],
      [ctor |-> "Int64", key |-> "n", val |-> 7],
      [ctor |-> "Float64", key |-> "k", val |-> F64(3)],
      [ctor |-> "String", key |-> "k", val |-> <<"a">>],
      [ctor |-> "String", key |-> "n", val |-> <<>>],
      [ctor |-> "String", key |-> "level", val |-> <<"x">>],
      [ctor |-> "String", key |-> "caller", val |-> <<"x">>],
      [ctor |-> "Stringer", key |-> "k", val |-> <<"s">>],
      [ctor |-> "IntSlice", key |-> "n", val |-> <<1, 2>>],
      [ctor |-> "StringSlice", key |-> "k", val |-> << <<"a">> >>],
      [ctor |-> "Any", key |-> "k", val |-> GoString(<<"a">>)],
      [ctor |-> "Any", key |-> "n", val |-> GoInt(7)],
      [ctor |-> "Any", key |-> "k", val |-> GoChan],
      [ctor |-> "Field", key |-> "k", val |-> "nnknownType"],
      [ctor |-> "Field", key |-> "n", val |-> "errType"] >>

FieldOfCall(call) ==
    CASE call.ctor = "Bool"        -> Bool(call.key, call.val)
      [] call.ctor = "Int"         -> logger_Int(call.key, call.val)
      [] call.ctor = "Int64"       -> Int64(call.key, call.val)
      [] call.ctor = "Float64"     -> Float64(call.key, call.val)
      [] call.ctor = "String"      -> String(call.key, call.val)
      [] call.ctor = "Stringer"    -> Stringer(call.key, call.val)
      [] call.ctor = "IntSlice"    -> IntSlice(call.key, call.val)
      [] call.ctor = "StringSlice" -> StringSlice(call.key, call.val)
      [] call.ctor = "Any"         -> logger_Any(call.key, call.val)
      [] call.ctor = "Field"       -> FieldOfType(call.key, call.val)

FieldsOfCalls(calls) == [i \in 1..Len(calls) |-> FieldOfCall(calls[i])]

CallLists == UNION {[1..n -> 1..Len(FieldCalls)] : n \in 0..MaxFields}

\* g: the calls that built the fields and, once projected, the three
\* projections of the fields
Calls == [i \in 1..Len(g.calls) |-> FieldCalls[g.calls[i]]]

InitFields ==
    /\ InitGlobals
    /\ \E calls \in CallLists :
          g = [pc |-> "built", calls |-> calls, kvs |-> <<>>, zap |-> <<>>, kv |-> <<>>]

Project ==
    /\ proc = "running"
    /\ g.pc = "built"
    /\ LET fields == FieldsOfCalls(Calls)
       IN g' = [g EXCEPT !.pc = "projected",
                         !.kvs = FieldsToKeyValues(fields),
                         !.zap = FieldsToZapFields(0, fields),
                         !.kv = lokiRecord(0, <<"i", "n", "f", "o">>, <<"m", "s", "g">>, fields)]
    /\ UNCHANGED <<config, enable_log, logger, provider, reqClient, rotateCrondOnce, cronJobs, propagator, sampler,
                   spanCount, ctxs, spanEnded, endCalled, emitted, proc, last>>

NextFields == Project

SpecFields == InitFields /\ [][NextFields]_vars

\* two entries with the same key, type and value
SameEntry(a, b) == a.k = b.k /\ a.t = b.t /\ a.v = b.v

\* exp is a subsequence of kvs
Embeds(exp, kvs) ==
    \E h \in [1..Len(exp) -> 1..Len(kvs)] :
       /\ \A i \in 1..Len(exp), j \in 1..Len(exp) : i < j => h[i] < h[j]
       /\ \A i \in 1..Len(exp) : SameEntry(kvs[h[i]], exp[i])

ScalarCtors == {"Bool", "Int", "Int64", "Float64", "String"}

\* the calls of the scalar constructors among the calls, in order
ScalarCalls == SelectSeq(Calls, LAMBDA call : call.ctor \in ScalarCtors)

\* the type of the attribute and of the log field a scalar constructor's
\* field is to become (the value is the constructor's argument)
AttributeType(ctor) ==
    CASE ctor = "Bool" -> "BOOL" [] ctor \in {"Int", "Int64"} -> "INT64"
      [] ctor = "Float64" -> "FLOAT64" [] ctor = "String" -> "STRING"

ZapType(ctor) ==
    CASE ctor = "Bool" -> "BoolType" [] ctor \in {"Int", "Int64"} -> "Int64Type"
      [] ctor = "Float64" -> "Float64Type" [] ctor = "String" -> "StringType"

\* C24: for the fields built by Bool, Int, Int64, Float64 or String, the
\* tracing projection and the log projection each hold one entry per field,
\* with the field's key and the constructor's value under the same type, in
\* input order
C24_ConsistentProjection ==
    g.pc = "projected" =>
       /\ Embeds([i \in 1..Len(ScalarCalls) |->
                    KeyValue(ScalarCalls[i].key, AttributeType(ScalarCalls[i].ctor),
                             ScalarCalls[i].val)], g.kvs)
       /\ Embeds([i \in 1..Len(ScalarCalls) |->
                    KeyValue(ScalarCalls[i].key, ZapType(ScalarCalls[i].ctor),
                             ScalarCalls[i].val)], g.zap)
       /\ Len(g.kvs) <= Len(g.calls)
       /\ Len(g.zap) <= Len(g.calls)
       /\ Len(ScalarCalls) = Len(g.calls) =>
             Len(g.kvs) = Len(g.calls) /\ Len(g.zap) = Len(g.calls)

\* two scalar fields, of different constructors, have been projected
C24_Witness ==
    /\ g.pc = "projected"
    /\ Len(ScalarCalls) = 2
    /\ ScalarCalls[1].ctor = "Int" /\ ScalarCalls[2].ctor = "Float64"
    /\ Len(g.kvs) = 2 /\ Len(g.zap) = 2

\* the calls whose field the tracing projection keeps
AnyCalls(failing) ==
    {i \in 1..Len(g.calls) :
        Calls[i].ctor = "Any" /\ jsonMarshal(Calls[i].val).err = failing}

\* C23: the tracing projection drops the fields of an unknown tag and the
\* "any" fields whose JSON encoding fails, holds each other "any" field as
\* a string attribute with its JSON encoding, and the log projection holds
\* every "any" field with its raw value
C23_SpecialTags ==
    g.pc = "projected" =>
       /\ proc = "running"
       /\ Len(g.kvs) = Cardinality({i \in 1..Len(g.calls) : Calls[i].ctor # "Field"}
                                      \ AnyCalls(TRUE))
       /\ \A i \in AnyCalls(FALSE) :
             \E j \in 1..Len(g.kvs) :
                SameEntry(g.kvs[j], KeyValue(Calls[i].key, "STRING",
                                             jsonMarshal(Calls[i].val).str))
       /\ \A i \in AnyCalls(TRUE) \cup AnyCalls(FALSE) :
             \E j \in 1..Len(g.zap) :
                /\ g.zap[j].k = Calls[i].key
                /\ CASE Calls[i].val.go = "string" ->
                           g.zap[j].t = "StringType" /\ g.zap[j].v = Calls[i].val.str
                     [] Calls[i].val.go = "int" ->
                           g.zap[j].t = "Int64Type" /\ g.zap[j].v = Calls[i].val.int
                     [] OTHER ->
                           g.zap[j].t = "ReflectType" /\ g.zap[j].v = Calls[i].val
       /\ Len(g.zap) = Cardinality({i \in 1..Len(g.calls) : Calls[i].ctor # "Field"})

\* an "any" field that does not encode and a field of an unknown tag have
\* been projected: neither is among the attributes, the first is in the log
C23_Witness ==
    /\ g.pc = "projected"
    /\ Len(g.calls) = 2
    /\ Calls[1].ctor = "Any" /\ Calls[1].val.go = "chan"
    /\ Calls[2].ctor = "Field"
    /\ g.kvs = <<>>
    /\ Len(g.zap) = 1

\* C25: when several fields of one call have the same key, the tracing
\* attributes, the log fields and the remote-push record each hold every
\* one of them
C25_DuplicateKeysKept ==
    (g.pc = "projected" /\ Len(ScalarCalls) = Len(g.calls)) =>
       \A k \in {Calls[i].key : i \in 1..Len(g.calls)} :
          LET n == Cardinality({i \in 1..Len(g.calls) : Calls[i].key = k})
          IN /\ Cardinality({j \in 1..Len(g.kvs) : g.kvs[j].k = k}) = n
             /\ Cardinality({j \in 1..Len(g.zap) : g.zap[j].k = k}) = n
             /\ (IF k \in DOMAIN g.kv THEN 1 ELSE 0) = n

\* ------------------------------------------------------------ propagation
\* the B3 headers of a request; http.Header.Get gives "" for a header that
\* is not set
NoHeaders == [X_B3_TraceId |-> <<>>, X_B3_SpanId |-> <<>>]

\* HttpInject(ctx, request): the B3 propagator writes the IDs of the span
\* of ctx when its span context is valid, and no ID otherwise
HttpInjectTraceOnly(c) ==
    IF ValidSC(Ctx(c).span)
    THEN [X_B3_TraceId |-> EncodeHex(Ctx(c).span.tid), X_B3_SpanId |-> <<>>]
    ELSE NoHeaders

HttpInject(c) ==
    IF ValidSC(Ctx(c).span)
    THEN [X_B3_TraceId |-> EncodeHex(Ctx(c).span.tid),
          X_B3_SpanId |-> EncodeHex(Ctx(c).span.sid)]
    ELSE NoHeaders

\* the B3 propagator's Extract: a remote span context when both headers
\* decode to valid IDs, the context unchanged otherwise
b3Extract(headers) ==
    LET t == TraceIDFromHex(headers.X_B3_TraceId)
        s == SpanIDFromHex(headers.X_B3_SpanId)
    IN IF t.ok /\ s.ok THEN [kind |-> "remote", tid |-> t.id, sid |-> s.id] ELSE NoSpan

\* the inbound middleware: the request context of the handler, extracted
\* from the headers of the request
GinMiddleware(request) ==
    [parent |-> 0, hasLSC |-> FALSE, lsc |-> NoLSC, span |-> b3Extract(request.headers),
     src |-> <<>>]

MaxCtxProp == 2

MaxRequests == 1

StartProp == StartUpTo(MaxCtxProp - 1)

\* g: the requests on their way to the receiving side
Send(request) ==
    /\ proc = "running"
    /\ Len(g) < MaxRequests
    /\ g' = Append(g, request)
    /\ last' = [NoCall EXCEPT !.op = "HttpInject", !.ctx = request.from, !.res = "ok"]
    /\ propagator' = IF request.injected THEN b3_New ELSE propagator
    /\ UNCHANGED <<config, enable_log, logger, provider, sampler, reqClient, rotateCrondOnce, cronJobs,
                   spanCount, ctxs, spanEnded, endCalled, emitted, proc>>

\* a request is sent with the identity of a context injected
SendInjected ==
    \E c \in CtxIds : Send([injected |-> TRUE, from |-> c, headers |-> HttpInject(c)])

\* a request is sent with nothing injected
SendPlain == Send([injected |-> FALSE, from |-> 0, headers |-> NoHeaders])

\* the receiving side runs the middleware, then the handler
Serve ==
    /\ proc = "running"
    /\ g # <<>>
    /\ Len(ctxs) < MaxCtxProp
    /\ ctxs' = Append(ctxs, GinMiddleware(Head(g)))
    /\ emitted' = Append(emitted, [warn |-> 0, error |-> 0])
    /\ g' = Tail(g)
    /\ last' = [NoCall EXCEPT !.op = "GinMiddleware", !.ctx = Len(ctxs) + 1, !.res = "ok",
                              !.args = <<Head(g).injected, Head(g).from>>]
    /\ UNCHANGED <<config, enable_log, logger, provider, reqClient, rotateCrondOnce, cronJobs, propagator, sampler,
                   spanCount, spanEnded, endCalled, proc>>

NextProp ==
    \/ DoInit
    \/ StartProp
    \/ End
    \/ SendInjected
    \/ SendPlain
    \/ Serve

SpecProp == Init /\ [][NextProp]_vars

C32_StartLeavesParent ==
    [][(last'.op = "Start" /\ last'.res # "panic") =>
          /\ Len(ctxs') = Len(ctxs) + 1
          /\ \A c \in 1..Len(ctxs) : ctxs'[c] = ctxs[c]
          /\ (RealSpan(last'.ctx) /\ last'.res = "real") =>
                /\ ctxs'[Len(ctxs')].hasLSC
                /\ EncodeHex(ctxs'[Len(ctxs')].span.tid) = TraceID(last'.ctx)
                /\ EncodeHex(ctxs'[Len(ctxs')].span.sid) # SpanID(last'.ctx)]_vars

\* a traced Start under a parent with a real span has returned
C32_Witness ==
    /\ last.op = "Start" /\ last.res = "real"
    /\ RealSpan(last.ctx)
    /\ RealSpan(Len(ctxs))
    /\ ctxs[Len(ctxs)].parent = last.ctx
    /\ TraceID(Len(ctxs)) = TraceID(last.ctx)
    /\ SpanID(Len(ctxs)) # SpanID(last.ctx)

\* ---- End and a panic
\* C33 as claimed: a deferred End(ctx) reached by a panic recovers it and
\* returns, whatever the configuration (output mode none and no Init at all
\* included), and End never raises a panic of its own.
C33_EndAbsorbsPanic ==
    last.op = "End" => (last.res # "panic" /\ proc = "running")

\* ---- the remote-push record
\* C34 as claimed: in the record built for an emission call the entries
\* level, msg and caller are the call's severity, message and call site,
\* and trace_id and span_id are there exactly with the identity of ctx,
\* whatever keys the attributes of the call use.
C34_ReservedPushKeys ==
    g.pc = "projected" =>
       /\ g.kv["level"].go = "string" /\ g.kv["level"].str = <<"i", "n", "f", "o">>
       /\ g.kv["msg"].go = "string" /\ g.kv["msg"].str = <<"m", "s", "g">>
       /\ g.kv["caller"].go = "string" /\ g.kv["caller"].str = CallSite
       /\ TraceID(0) = <<>> => "trace_id" \notin DOMAIN g.kv
       /\ SpanID(0) = <<>> => "span_id" \notin DOMAIN g.kv

\* ---- the rotating writer
\* C35 as claimed: after Init calls that all log to a file with a rotation
\* schedule, a firing of the rotation job rotates the writer of the logger
\* the emission operations write to, the one the last Init built.
C35_RotationFollowsWriter ==
    (last.op = "Rotate" /\ g.rotating) => last.args = <<logger.lumLogger.id>>

\* C39 as claimed: the rotating writer newZapLogger builds from a config
\* with MaxAge 0 has a maximum age of 7 days.
C39_DefaultRetention ==
    (last.op = "Init" /\ last.res = "ok" /\ g.conf.Output # "none" /\ g.conf.MaxAge = 0)
       => logger.lumLogger.MaxAge = DefaultMaxAge

\* ---- the ceiling
\* C37: once Init has returned the ceiling is 200 when the configured
\* MaxSpan is 0 and the configured value otherwise, tracing is never on
\* with a ceiling of 0, and Start compares the parent's count against it with >=: a Start
\* is traced only under a parent whose count was below the ceiling, and
\* with tracing on it is a no-op only under a parent whose count has
\* reached the ceiling.
C37_EffectiveCeiling ==
    /\ (last.op = "Init" /\ last.res = "ok") =>
          config.MaxSpan = (IF last.args[1].MaxSpan = 0 THEN 200 ELSE last.args[1].MaxSpan)
    /\ (config.EnableTrace /\ proc = "running") => config.MaxSpan # 0
    /\ (last.op = "Start" /\ last.res = "real") =>
          spanCountT_get(spanCount, TraceID(last.ctx), SpanID(last.ctx)) - 1 < config.MaxSpan
    /\ (last.op = "Start" /\ last.res = "noop" /\ config.EnableTrace) =>
          spanCountT_get(spanCount, TraceID(last.ctx), SpanID(last.ctx)) >= config.MaxSpan

\* a Start under a parent with a real span whose count equals the ceiling
\* has returned a no-op span
C37_Witness ==
    /\ last.op = "Start" /\ last.res = "noop"
    /\ config.EnableTrace
    /\ RealSpan(last.ctx)
    /\ config.MaxSpan = 2
    /\ spanCountT_get(spanCount, TraceID(last.ctx), SpanID(last.ctx)) = 2
    /\ Cardinality(RealUnder(last.ctx)) = 2

\* ------------------------------------------------- backends and propagator
\* TraceSampleRatio values are -1/2 .. MaxRatio/2
MaxRatio == 3

Ratios == {[half |-> n] : n \in -1..MaxRatio}

BackendConfigs ==
    [Debug : {FALSE}, EnableTrace : BOOLEAN, Output : {"none"},
     TracerProviderType : {"", "file"}, MaxSpan : {0}, Rotate : {<<>>}, MaxAge : {0},
     TraceSampleRatio : Ratios]

logx_BackendConfigs ==
    [Debug : {FALSE}, EnableTrace : BOOLEAN, Output : {"none"},
     TracerProviderType : {"", "file"}, LokiServer : {""}, Rotate : {<<>>}, MaxAge : {0},
     TraceSampleRatio : Ratios]

\* g: the package in use, the conf Init was called with and the global
\* propagator as it was when Init returned
InitBackend ==
    /\ InitGlobals
    /\ g = [pkg |-> "", conf |-> config, installed |-> NoPropagator]

\* Init(conf) of package logger
logger_InitBackend ==
    /\ proc = "running"
    /\ g.pkg = ""
    /\ \E conf \in BackendConfigs, exporterFails \in BOOLEAN :
          /\ InitCall(conf, exporterFails)
          /\ g' = [pkg |-> "logger", conf |-> conf, installed |-> propagator']
    /\ UNCHANGED <<spanCount, ctxs, spanEnded, endCalled, emitted>>

\* Init(conf, serviceName) of package logx
logx_InitBackend ==
    /\ proc = "running"
    /\ g.pkg = ""
    /\ \E conf \in logx_BackendConfigs, exporterFails \in BOOLEAN :
          /\ logx_InitCall(conf, exporterFails)
          /\ g' = [pkg |-> "logx", conf |-> conf, installed |-> propagator']
    /\ UNCHANGED <<spanCount, ctxs, spanEnded, endCalled, emitted>>

logger_StartBackend == g.pkg = "logger" /\ StartUpTo(MaxCtxLogx)

logx_StartBackend == g.pkg = "logx" /\ logx_Start

\* inject.HttpInject(ctx, request): sets the global propagator to b3, then
\* injects with the global propagator
HttpInjectBackend ==
    /\ proc = "running"
    /\ \E c \in CtxIds :
          last' = [NoCall EXCEPT !.op = "HttpInject", !.ctx = c, !.res = "ok",
                                 !.args = <<HttpInject(c)>>]
    /\ propagator' = b3_New
    /\ UNCHANGED <<config, enable_log, logger, provider, sampler, reqClient, rotateCrondOnce,
                   cronJobs, spanCount, ctxs, spanEnded, endCalled, emitted, proc, g>>

NextBackend ==
    \/ logger_InitBackend
    \/ logx_InitBackend
    \/ logger_StartBackend
    \/ logx_StartBackend
    \/ HttpInjectBackend

SpecBackend == InitBackend /\ [][NextBackend]_vars

\* C36: after HttpInject has returned the global text-map propagator is the
\* one that was installed when Init returned.
C36_InjectKeepsPropagator ==
    (last.op = "HttpInject" /\ g.pkg # "") => propagator = g.installed

\* C38: a provider that samples by ratio has been handed the configured
\* TraceSampleRatio clamped to [0,1], and the process-wide config keeps the
\* value Init was called with.
C38_RatioClamped ==
    (g.pkg # "" /\ proc = "running") =>
       LET r == g.conf.TraceSampleRatio.half
       IN  /\ config.TraceSampleRatio = g.conf.TraceSampleRatio
           /\ sampler.sampler = "TraceIDRatioBased" =>
                 sampler.fraction.half = (IF r > 2 THEN 2 ELSE IF r < 0 THEN 0 ELSE r)

=============================================================================
